---- MODULE Spec2Model ----
(***************************************************************************)
(* A model of EDAI's event pipeline: the Audio Dispatcher (TTSEngine,      *)
(* src/src/tts_engine.py), the Generation Dispatcher (LLMEngine,           *)
(* src/src/llm_engine.py) and the File Tailer (JournalFileHandler and      *)
(* JournalWatcher, src/src/journal_watcher.py).                            *)
(*                                                                         *)
(* Every thread of the program is a process with a program counter; one    *)
(* action is one step between two points where another thread can run.     *)
(* The three components share no state: each has its own specification     *)
(* (SpecTTS, SpecLLM, SpecTailer), in which the other two stand still.     *)
(* Variables that record what happened (calls, played, stops, gcalls,      *)
(* genlog, invoked, lastcall, ...) are history variables: the code does    *)
(* not hold them, the properties do.                                       *)
(***************************************************************************)
EXTENDS Integers, Sequences, FiniteSets, TLC

\* ------------------------------------------------------------------------
\* Bounds of the model
\* ------------------------------------------------------------------------
\* speak() calls, stop() calls
MaxSpeak == 3
MaxStop == 1
\* generate() calls, load_model() calls
MaxGen == 3
MaxLoad == 1
\* journal files, writes of the game to them
MaxFiles == 2
MaxWrites == 3
\* entries of the journal directory, and the range of their modification times
MaxNames == 3
MaxMtime == 2
\* calls of GameStateTracker.update
MaxUpdates == 12
\* live records before a bootstrap, records of a bootstrap sequence
MaxLive == 1
MaxReplay == 2
\* records handled where lookups are followed
MaxArrivals == 3
\* tokens of a generated text
MaxText == 4
\* speak() calls and generate() calls when items may fail
MaxItems == 2
\* submit calls to each dispatcher when the callers overlap
MaxSubmits == 2
\* start_monitoring calls, and records and chat messages received between them
MaxStarts == 2
MaxReceived == 2

\* the constants of game_state.py: the default fuel, the length of recent_events
DefaultFuelLevel == 100
DefaultFuelCapacity == 32
RecentKept == 10

\* ------------------------------------------------------------------------
\* AudioPriority (tts_engine.py:25-30)
\* ------------------------------------------------------------------------
LOW == 1
NORMAL == 2
HIGH == 3
URGENT == 4
AudioPriority == {LOW, NORMAL, HIGH, URGENT}

\* the priorities speak() is called with here: the program's own calls pass
\* NORMAL and URGENT (gui.py:394-443, 888, 918), LOW stands for every class
\* below them
SpokenPriorities == {LOW, NORMAL, URGENT}

\* The threads that call TTSEngine.speak: the watch thread (gui.py:394,
\* 403), the generation worker through on_response (gui.py:412, 438, 918)
\* and the control thread (gui.py:443, 888).
Callers == {"watch", "genworker", "control"}

\* The threads that call LLMEngine.generate: the watch thread (gui.py:417)
\* and the control thread (gui.py:440, 920).
GenCallers == {"watch", "control"}

QIds == 0..MaxSpeak
NoReq == 0
FileIds == 1..MaxFiles

\* the types the allow-list and the urgent set are drawn from
AppConfigTypes == {"ShieldState", "Music"}
ParserConfigTypes == {"FSDJump", "ShieldState", "Bounty", "Music"}

VARIABLES
    \* ---- TTSEngine fields
    queues,                 \* the PriorityQueue objects ever built: id -> heap content
    audio_queue,            \* self.audio_queue: the id of the current queue object
    nqueues,                \* number of queue objects built after the first
    queue_counter,          \* self._queue_counter
    current_priority,       \* self.current_priority
    is_playing,             \* self.is_playing
    stop_current_playback,  \* self.stop_current_playback
    workers_started,        \* how many threads _start_worker has started
    \* a thread inside speak(): where it is, its request, its new_queue
    cpc, cid, cnewq,
    \* the thread inside stop()
    spc,
    \* the audio worker thread: where it is, the queue object its get()
    \* waits on, the request it holds, whether sd.stop() hit its playback
    wpc, wq, wreq, sd_stopped, wstop,
    \* history
    calls,                  \* speak calls in the order they began
    played,                 \* what became of each dequeued item, in order
    stops,                  \* stop() calls
    \* ---- LLMEngine fields
    generation_queue,       \* self.generation_queue
    response_callbacks,     \* self.response_callbacks
    is_loaded,              \* self.is_loaded
    loads,                  \* how often load_model succeeded
    llm_workers_started,    \* how many threads _start_worker has started
    \* a thread inside generate(): where it is, its text
    gpc, gid,
    \* the generation worker: where it is, its event_text, its response, the
    \* position of its iteration over response_callbacks
    lpc, ltext, lresponse, lidx,
    \* history
    gcalls,                 \* generate calls in the order they began
    genlog,                 \* the worker's generate_sync calls, in order
    invoked,                \* the worker's callback calls, in order
    \* ---- the journal directory
    journal_files,          \* the Journal.*.log files that exist
    content,                \* file -> the units written to it
    mtime,                  \* file -> st_mtime
    clock,                  \* the time, in units of mtime's resolution
    writes,                 \* number of writes so far
    \* ---- JournalWatcher and JournalFileHandler fields
    is_running,             \* JournalWatcher.is_running
    has_handler,            \* JournalWatcher.handler is not None
    current_journal,        \* handler.current_journal
    last_position,          \* handler.last_position
    loading_initial_state,  \* handler.loading_initial_state
    \* history
    dirty,                  \* the attached file grew since the last handler call
    called,                 \* _read_new_events ran since the attach
    lastcall,               \* what the last handler call read and delivered
    attach,                 \* the last attach: its file, whether it replayed, the file's size then
    \* ---- JournalWatcher._find_latest_journal ----
    journal_dir,            \* the directory: whether it exists, and its entries
    latest_journal,         \* what the last _find_latest_journal returned
    \* ---- EventParser, Config ----
    whitelist,              \* parser.whitelist
    urgent_events,          \* parser.urgent_events
    raw_data_mode,          \* config.raw_data_mode
    \* ---- GameState ----
    recent_events,          \* the last records, each named by the number of its update call
    in_supercruise,
    in_normal_space,
    docked,
    fuel_level,
    fuel_capacity,
    \* history
    updates,                \* number of update calls so far
    handled,                \* the last record _handle_event got, and what it submitted
    parsed,                 \* the last record parse() got, and what it returned
    \* ---- Replay ----
    replay,                 \* the bootstrap sequence being replayed, the pass, the position, the fields after the first pass
    \* ---- Race ----
    upc,                    \* where update_from_event stands on the watch thread
    urec,                   \* the record it is applying
    seen,                   \* what the last read on the control thread observed
    \* ---- Lookup ----
    system_cache,           \* parser.system_cache: what is cached for each system name
    cache_lock,             \* parser.cache_lock: the thread that holds it
    kpc,                    \* where each thread stands in _handle_event with an arrival record
    kcall,                  \* the record, the system name and the looked up information of that call
    requested,              \* the network lookups made: thread, system, holder of the cache lock then
    formatted,              \* what the last _format_fsd_jump call returned
    \* ---- Clean ----
    clean_in,               \* the generated text handed to _clean_response, token by token
    clean_out,              \* what _clean_response returned for it
    \* ---- Submit ----
    submit,                 \* where each thread stands in speak() or generate(), and the counter value it read
    worker_thread,          \* each dispatcher's _worker_thread: 0 for None, else the number of the thread
    worker_pc,              \* each dispatcher's worker threads and where each stands in its loop
    pending,                \* how many items each dispatcher's queue holds
    next_seq,               \* the audio dispatcher's _queue_counter as concurrent callers see it
    enqueued,               \* the sequence numbers put on the audio queue, in the order of the puts
    submitted,              \* how many submit calls each dispatcher got
    \* ---- Station ----
    current_station,        \* GameState.current_station: the name of the station, or none
    \* ---- Restart ----
    app_tts,                \* EDAIApp.tts: 0 for None, else the number of the TTSEngine object
    app_llm,                \* EDAIApp.llm: 0 for None, else the number of the LLMEngine object
    monitoring,             \* EDAIApp.is_running
    stop_count,             \* how many stop_monitoring calls have returned
    engine_loaded,          \* is_loaded of each LLMEngine object
    engine_queue,           \* generation_queue of each LLMEngine object: the requests, each with the stop count at which it was received
    engine_worker,          \* the worker thread of each LLMEngine object: where it stands, the request it holds, the response
    received,               \* how many records and chat messages were received
    spoken                  \* the speak() calls made by on_response: origin of the text, stop count and TTSEngine at the call

qVars == <<queues, audio_queue, nqueues>>
flagVars == <<current_priority, is_playing, stop_current_playback>>
callerVars == <<cpc, cid, cnewq>>
workerVars == <<wpc, wq, wreq, sd_stopped, wstop>>
ttsVars == <<qVars, flagVars, callerVars, workerVars, queue_counter,
             workers_started, spc, calls, played, stops>>

llmWorkerVars == <<lpc, ltext, lresponse, lidx>>
llmVars == <<generation_queue, response_callbacks, is_loaded, loads,
             llm_workers_started, gpc, gid, llmWorkerVars, gcalls, genlog,
             invoked>>

fileVars == <<journal_files, content, mtime, clock, writes>>
handlerVars == <<is_running, has_handler, current_journal, last_position,
                 loading_initial_state>>
tailerVars == <<fileVars, handlerVars, dirty, called, lastcall, attach>>

\* what stands still while one component takes a step
selectVars == <<journal_dir, latest_journal>>
configVars == <<whitelist, urgent_events, raw_data_mode>>
stateVars == <<recent_events, in_supercruise, in_normal_space, docked, fuel_level,
               fuel_capacity, updates>>
appVars == <<configVars, stateVars, handled, parsed>>

replayVars == <<replay>>
raceVars == <<upc, urec, seen>>
lookupVars == <<system_cache, cache_lock, kpc, kcall, requested, formatted>>
cleanVars == <<clean_in, clean_out>>
submitVars == <<submit, worker_thread, worker_pc, pending, next_seq, enqueued, submitted>>
stationVars == <<current_station>>
restartVars == <<app_tts, app_llm, monitoring, stop_count, engine_loaded, engine_queue, engine_worker, received, spoken>>
otherThanTTS == <<llmVars, tailerVars, selectVars, appVars, replayVars, raceVars, lookupVars, cleanVars, submitVars, stationVars, restartVars>>
otherThanLLM == <<ttsVars, tailerVars, selectVars, appVars, replayVars, raceVars, lookupVars, cleanVars, submitVars, stationVars, restartVars>>
otherThanTailer == <<ttsVars, llmVars, selectVars, appVars, replayVars, raceVars, lookupVars, cleanVars, submitVars, stationVars, restartVars>>
otherThanSelect == <<ttsVars, llmVars, tailerVars, appVars, replayVars, raceVars, lookupVars, cleanVars, submitVars, stationVars, restartVars>>
otherThanApp == <<ttsVars, llmVars, tailerVars, selectVars, replayVars, raceVars, lookupVars, cleanVars, submitVars, stationVars, restartVars>>
otherThanReplay == <<ttsVars, llmVars, tailerVars, selectVars, appVars, raceVars, lookupVars, cleanVars, submitVars, stationVars, restartVars>>
otherThanAppReplay == <<ttsVars, llmVars, tailerVars, selectVars, raceVars, lookupVars, cleanVars, submitVars, stationVars, restartVars>>
otherThanRace == <<ttsVars, llmVars, tailerVars, selectVars, appVars, replayVars, lookupVars, cleanVars, submitVars, stationVars, restartVars>>
otherThanAppRace == <<ttsVars, llmVars, tailerVars, selectVars, replayVars, lookupVars, cleanVars, submitVars, stationVars, restartVars>>
otherThanLookup == <<ttsVars, llmVars, tailerVars, selectVars, appVars, replayVars, raceVars, cleanVars, submitVars, stationVars, restartVars>>
otherThanAppLookup == <<ttsVars, llmVars, tailerVars, selectVars, replayVars, raceVars, cleanVars, submitVars, stationVars, restartVars>>
otherThanClean == <<ttsVars, llmVars, tailerVars, selectVars, appVars, replayVars, raceVars, lookupVars, submitVars, stationVars, restartVars>>
otherThanSubmit == <<ttsVars, llmVars, tailerVars, selectVars, appVars, replayVars, raceVars, lookupVars, cleanVars, stationVars, restartVars>>
otherThanAppStation == <<ttsVars, llmVars, tailerVars, selectVars, replayVars, raceVars, lookupVars, cleanVars, submitVars, restartVars>>
otherThanStation == <<ttsVars, llmVars, tailerVars, selectVars, appVars, replayVars, raceVars, lookupVars, cleanVars, submitVars, restartVars>>
otherThanRestart == <<ttsVars, llmVars, tailerVars, selectVars, appVars, replayVars, raceVars, lookupVars, cleanVars, submitVars, stationVars>>

vars == <<ttsVars, llmVars, tailerVars, selectVars, appVars, replayVars, raceVars, lookupVars, cleanVars, submitVars, stationVars, restartVars>>

\* ========================================================================
\* The Audio Dispatcher (tts_engine.py)
\* ========================================================================

\* ------------------------------------------------------------------------
\* The priority queue: queue.PriorityQueue over (-priority.value, counter,
\* request) tuples, a min-heap compared as tuples.
\* ------------------------------------------------------------------------

\* speak builds the queue entry (-priority.value, self._queue_counter, request)
QueueKeyNotNegated(p, c, r) == [np |-> p, ctr |-> c, req |-> r]
QueueKey(p, c, r) == [np |-> 0 - p, ctr |-> c, req |-> r]

\* tuple comparison on the first two components (the counters of two
\* entries differ, so the request is never compared)
PQLess(a, b) == a.np < b.np \/ (a.np = b.np /\ a.ctr < b.ctr)

\* heappop: the least entry
PQMin(S) == CHOOSE e \in S : \A o \in S \ {e} : PQLess(e, o)

ReqPriority(r) == calls[r].prio

\* `request.priority >= priority` in _clear_queue_below: AudioPriority is an
\* Enum, not an IntEnum, and defines no ordering: the comparison raises
\* TypeError whatever the two members are.
EnumOrderRaises(a, b) == TRUE

\* Does the playback in progress end early?  _play_audio blocks in sd.wait()
\* until the device is done or sd.stop() is called; the worker never reads
\* stop_current_playback.
PlaybackCutHonoursFlag(stopped, flag) == stopped \/ flag
PlaybackCut(stopped, flag) == stopped

\* `except Exception as e: print(...)` inside a worker loop: the exception
\* ends there and the thread goes on at pc; an exception that leaves the
\* loop would end the thread
Escapes(pc) == "dead"
Caught(pc) == pc

\* the worker holds a dequeued request that it has not finished with
InFlight == wpc \in {"set_prio", "synth", "play"}

\* the requests the worker's get() has returned so far, in order
Dequeued ==
    [i \in 1..Len(played) |-> played[i].req] \o
        (IF InFlight THEN <<wreq>> ELSE <<>>)

\* every entry that sits in some queue object
AllQueued == UNION {queues[q] : q \in QIds}
QueuedReqs == {e.req : e \in AllQueued}

\* no speak() and no stop() is in progress
Quiet == (\A t \in Callers : cpc[t] = "idle") /\ spc = "idle"

\* the engine as constructed (tts_engine.py:55-87)
InitTTS ==
    /\ queues = [q \in QIds |-> {}]
    /\ audio_queue = 0
    /\ nqueues = 0
    /\ queue_counter = 0
    /\ current_priority = LOW
    /\ is_playing = FALSE
    /\ stop_current_playback = FALSE
    /\ workers_started = 0
    /\ cpc = [t \in Callers |-> "idle"]
    /\ cid = [t \in Callers |-> NoReq]
    /\ cnewq = [t \in Callers |-> 0]
    /\ spc = "idle"
    /\ wpc = "none"
    /\ wq = 0
    /\ wreq = NoReq
    /\ sd_stopped = FALSE
    /\ wstop = FALSE
    /\ calls = <<>>
    /\ played = <<>>
    /\ stops = <<>>

\* ------------------------------------------------------------------------
\* TTSEngine.speak(text, priority), called by thread t
\* ------------------------------------------------------------------------

\* speak() ends: status is "returned" or "raised"
SpeakEnds(t, status) ==
    /\ calls' = [calls EXCEPT ![cid[t]].status = status,
                              ![cid[t]].dqend = Len(Dequeued)]
    /\ cpc' = [cpc EXCEPT ![t] = "idle"]
    /\ cid' = [cid EXCEPT ![t] = NoReq]
    /\ cnewq' = [cnewq EXCEPT ![t] = 0]

\* the call begins; an URGENT call enters _clear_queue_below, which first
\* builds new_queue
SpeakBegin(t, p) ==
    /\ cpc[t] = "idle"
    /\ Len(calls) < MaxSpeak
    /\ calls' = Append(calls, [prio |-> p, status |-> "running",
                               inflight |-> IF InFlight THEN wreq ELSE NoReq,
                               dqend |-> 0])
    /\ cid' = [cid EXCEPT ![t] = Len(calls) + 1]
    /\ IF p = URGENT
         THEN /\ nqueues' = nqueues + 1
              /\ cnewq' = [cnewq EXCEPT ![t] = nqueues + 1]
              /\ cpc' = [cpc EXCEPT ![t] = "clear_check"]
         ELSE /\ cpc' = [cpc EXCEPT ![t] = "put"]
              /\ UNCHANGED <<nqueues, cnewq>>
    /\ UNCHANGED <<queues, audio_queue, flagVars, workerVars, queue_counter,
                   workers_started, spc, played, stops>>
    /\ UNCHANGED otherThanTTS

\* `while not self.audio_queue.empty()`
ClearCheck(t) ==
    /\ cpc[t] = "clear_check"
    /\ cpc' = [cpc EXCEPT ![t] = IF queues[audio_queue] = {}
                                   THEN "clear_assign" ELSE "clear_get"]
    /\ UNCHANGED <<qVars, flagVars, cid, cnewq, workerVars, queue_counter,
                   workers_started, spc, calls, played, stops>>
    /\ UNCHANGED otherThanTTS

\* `item = self.audio_queue.get_nowait()` and the comparison that decides
\* whether the item is kept.  queue.Empty leaves the loop; any other
\* exception leaves speak(), with the item already taken off the queue.
ClearGet(t) ==
    /\ cpc[t] = "clear_get"
    /\ IF queues[audio_queue] = {}
         THEN /\ cpc' = [cpc EXCEPT ![t] = "clear_assign"]
              /\ UNCHANGED <<queues, calls, cid, cnewq>>
         ELSE LET item == PQMin(queues[audio_queue])
                  without == [queues EXCEPT ![audio_queue] = @ \ {item}]
                  a == ReqPriority(item.req)
                  b == ReqPriority(cid[t])
              IN  IF EnumOrderRaises(a, b)
                    THEN /\ queues' = without
                         /\ SpeakEnds(t, "raised")
                    ELSE /\ queues' = IF a >= b
                                        THEN [without EXCEPT ![cnewq[t]] = @ \cup {item}]
                                        ELSE without
                         /\ cpc' = [cpc EXCEPT ![t] = "clear_check"]
                         /\ UNCHANGED <<calls, cid, cnewq>>
    /\ UNCHANGED <<audio_queue, nqueues, flagVars, workerVars, queue_counter,
                   workers_started, spc, played, stops>>
    /\ UNCHANGED otherThanTTS

\* `self.audio_queue = new_queue`
ClearAssign(t) ==
    /\ cpc[t] = "clear_assign"
    /\ audio_queue' = cnewq[t]
    /\ cpc' = [cpc EXCEPT ![t] = "urgent_flag"]
    /\ UNCHANGED <<queues, nqueues, flagVars, cid, cnewq, workerVars,
                   queue_counter, workers_started, spc, calls, played, stops>>
    /\ UNCHANGED otherThanTTS

\* `if self.current_priority.value < priority.value:
\*      self.stop_current_playback = True`
UrgentFlag(t) ==
    /\ cpc[t] = "urgent_flag"
    /\ stop_current_playback' =
           IF current_priority < ReqPriority(cid[t]) THEN TRUE
                                                     ELSE stop_current_playback
    /\ cpc' = [cpc EXCEPT ![t] = "put"]
    /\ UNCHANGED <<qVars, current_priority, is_playing, cid, cnewq,
                   workerVars, queue_counter, workers_started, spc, calls,
                   played, stops>>
    /\ UNCHANGED otherThanTTS

\* `self.audio_queue.put((-priority.value, self._queue_counter, request))`
SpeakPut(t) ==
    /\ cpc[t] = "put"
    /\ queues' = [queues EXCEPT ![audio_queue] =
                     @ \cup {QueueKey(ReqPriority(cid[t]), queue_counter, cid[t])}]
    /\ cpc' = [cpc EXCEPT ![t] = "incr"]
    /\ UNCHANGED <<audio_queue, nqueues, flagVars, cid, cnewq, workerVars,
                   queue_counter, workers_started, spc, calls, played, stops>>
    /\ UNCHANGED otherThanTTS

\* `self._queue_counter += 1`
CounterNext(c) == c + 1

SpeakIncr(t) ==
    /\ cpc[t] = "incr"
    /\ queue_counter' = CounterNext(queue_counter)
    /\ cpc' = [cpc EXCEPT ![t] = "start"]
    /\ UNCHANGED <<qVars, flagVars, cid, cnewq, workerVars, workers_started,
                   spc, calls, played, stops>>
    /\ UNCHANGED otherThanTTS

\* `if self._worker_thread is None or not self._worker_thread.is_alive():
\*      self._start_worker()`, and speak returns.  The worker loop never
\* ends (nothing sets _stop_worker while the engine is in use), so a started
\* worker is alive.
SpeakStart(t) ==
    /\ cpc[t] = "start"
    /\ IF workers_started = 0 \/ wpc = "dead"
         THEN /\ workers_started' = 1
              /\ wpc' = "loop"
         ELSE UNCHANGED <<workers_started, wpc>>
    /\ SpeakEnds(t, "returned")
    /\ UNCHANGED <<qVars, flagVars, wq, wreq, sd_stopped, wstop,
                   queue_counter, spc, played, stops>>
    /\ UNCHANGED otherThanTTS

\* ------------------------------------------------------------------------
\* TTSEngine._worker_loop
\* ------------------------------------------------------------------------

\* `self.audio_queue.get(timeout=0.5)` is entered: the worker now waits on
\* the queue object that self.audio_queue names at this moment
WGetBegin ==
    /\ wpc = "loop"
    /\ wq' = audio_queue
    /\ wpc' = "get"
    /\ UNCHANGED <<qVars, flagVars, callerVars, wreq, sd_stopped, wstop,
                   queue_counter, workers_started, spc, calls, played, stops>>
    /\ UNCHANGED otherThanTTS

\* get() returns the least entry of that queue object
WTake ==
    /\ wpc = "get"
    /\ queues[wq] # {}
    /\ LET item == PQMin(queues[wq])
       IN  /\ queues' = [queues EXCEPT ![wq] = @ \ {item}]
           /\ wreq' = item.req
    /\ wpc' = "set_prio"
    /\ sd_stopped' = FALSE
    /\ wstop' = FALSE
    /\ UNCHANGED <<audio_queue, nqueues, flagVars, callerVars, wq,
                   queue_counter, workers_started, spc, calls, played, stops>>
    /\ UNCHANGED otherThanTTS

\* get() times out on an empty queue: queue.Empty, `continue`
WTimeout ==
    /\ wpc = "get"
    /\ queues[wq] = {}
    /\ wpc' = "loop"
    /\ UNCHANGED <<qVars, flagVars, callerVars, wq, wreq, sd_stopped, wstop,
                   queue_counter, workers_started, spc, calls, played, stops>>
    /\ UNCHANGED otherThanTTS

\* `self.current_priority = request.priority; self.is_playing = True`
WSetPlaying ==
    /\ wpc = "set_prio"
    /\ current_priority' = ReqPriority(wreq)
    /\ is_playing' = TRUE
    /\ wpc' = "synth"
    /\ UNCHANGED <<qVars, stop_current_playback, callerVars, wq, wreq,
                   sd_stopped, wstop, queue_counter, workers_started, spc,
                   calls, played, stops>>
    /\ UNCHANGED otherThanTTS

\* `audio_data = self._synthesize(request.text)`: it returns the samples and
\* _play_audio starts the device (ok), or it raises and the loop's
\* `except Exception` sets is_playing to False and goes on
WSynthesize(ok) ==
    /\ wpc = "synth"
    /\ IF ok
         THEN /\ wpc' = "play"
              /\ sd_stopped' = FALSE
              /\ UNCHANGED <<is_playing, played, wreq>>
         ELSE /\ wpc' = Caught("loop")
              /\ is_playing' = FALSE
              /\ played' = Append(played, [req |-> wreq, outcome |-> "synth_error",
                                           stopped |-> wstop])
              /\ wreq' = NoReq
              /\ UNCHANGED sd_stopped
    /\ UNCHANGED <<qVars, current_priority, stop_current_playback,
                   callerVars, wq, wstop, queue_counter, workers_started,
                   spc, calls, stops>>
    /\ UNCHANGED otherThanTTS

\* sd.wait() returns: the device played the item to its end, or was stopped
\* (sd.stop()), or failed (caught and printed inside _play_audio); then
\* `self.is_playing = False; self.stop_current_playback = False`
WPlayDone(deviceOk) ==
    /\ wpc = "play"
    /\ played' = Append(played,
           [req |-> wreq,
            outcome |-> IF ~deviceOk THEN "play_error"
                        ELSE IF PlaybackCut(sd_stopped, stop_current_playback)
                               THEN "cut" ELSE "complete",
            stopped |-> wstop])
    /\ is_playing' = FALSE
    /\ stop_current_playback' = FALSE
    /\ wreq' = NoReq
    /\ wpc' = IF deviceOk THEN "loop" ELSE Caught("loop")
    /\ UNCHANGED <<qVars, current_priority, callerVars, wq, sd_stopped,
                   wstop, queue_counter, workers_started, spc, calls, stops>>
    /\ UNCHANGED otherThanTTS

\* ------------------------------------------------------------------------
\* TTSEngine.stop(), called by the control thread (gui.py:331)
\* ------------------------------------------------------------------------

\* `self.stop_current_playback = True; sd.stop()`
StopBegin ==
    /\ spc = "idle"
    /\ Len(stops) < MaxStop
    /\ stop_current_playback' = TRUE
    /\ IF wpc = "play"
         THEN sd_stopped' = TRUE /\ wstop' = TRUE
         ELSE UNCHANGED <<sd_stopped, wstop>>
    /\ stops' = Append(stops, [queued |-> {e.req : e \in queues[audio_queue]},
                               ncalls |-> Len(calls),
                               status |-> "running"])
    /\ spc' = "check"
    /\ UNCHANGED <<qVars, current_priority, is_playing, callerVars, wpc, wq,
                   wreq, queue_counter, workers_started, calls, played>>
    /\ UNCHANGED otherThanTTS

\* `while not self.audio_queue.empty()`: stop() returns when it is empty
StopCheck ==
    /\ spc = "check"
    /\ IF queues[audio_queue] = {}
         THEN /\ spc' = "idle"
              /\ stops' = [stops EXCEPT ![Len(stops)].status = "returned"]
         ELSE /\ spc' = "get"
              /\ UNCHANGED stops
    /\ UNCHANGED <<qVars, flagVars, callerVars, workerVars, queue_counter,
                   workers_started, calls, played>>
    /\ UNCHANGED otherThanTTS

\* `self.audio_queue.get_nowait()`: the entry is dropped; queue.Empty ends
\* the loop and stop() returns
StopGet ==
    /\ spc = "get"
    /\ IF queues[audio_queue] = {}
         THEN /\ spc' = "idle"
              /\ stops' = [stops EXCEPT ![Len(stops)].status = "returned"]
              /\ UNCHANGED queues
         ELSE /\ queues' = [queues EXCEPT ![audio_queue] =
                               @ \ {PQMin(queues[audio_queue])}]
              /\ spc' = "check"
              /\ UNCHANGED stops
    /\ UNCHANGED <<audio_queue, nqueues, flagVars, callerVars, workerVars,
                   queue_counter, workers_started, calls, played>>
    /\ UNCHANGED otherThanTTS

\* ------------------------------------------------------------------------
\* The Audio Dispatcher: speak() and stop() calls that do not overlap one
\* another, each interleaved step by step with the worker thread; every
\* synthesis and every playback call returns.
\* ------------------------------------------------------------------------
NextTTS ==
    \/ \E t \in Callers, p \in SpokenPriorities : Quiet /\ SpeakBegin(t, p)
    \/ \E t \in Callers : ClearCheck(t)
    \/ \E t \in Callers : ClearGet(t)
    \/ \E t \in Callers : ClearAssign(t)
    \/ \E t \in Callers : UrgentFlag(t)
    \/ \E t \in Callers : SpeakPut(t)
    \/ \E t \in Callers : SpeakIncr(t)
    \/ \E t \in Callers : SpeakStart(t)
    \/ WGetBegin
    \/ WTake
    \/ WTimeout
    \/ WSetPlaying
    \/ WSynthesize(TRUE)
    \/ WPlayDone(TRUE)
    \/ (Quiet /\ StopBegin)
    \/ StopCheck
    \/ StopGet

\* ========================================================================
\* The Generation Dispatcher (llm_engine.py)
\* ========================================================================

\* `return "I'm having trouble processing that, Commander."` and
\* `return "Model not loaded."` of generate_sync; a text that the model
\* generated is the cleaned response to the text it was generated from
FallbackUtterance == [text |-> "I'm having trouble processing that, Commander.", of |-> 0]
ModelNotLoaded == [text |-> "Model not loaded.", of |-> 0]
CleanResponse(id) == [text |-> "generated", of |-> id]
RaisedOut == [text |-> "exception", of |-> 0]

\* the outcomes of the external call `self.llm(prompt, ...)`
LlmOutcomes == {"answers", "raises"}

\* generate_sync(event_text): what the call yields for text `id`.  It answers
\* without reaching the model when none is loaded, and it turns every
\* exception of the model call into the fallback utterance.
GenerateSyncPropagates(loaded, outcome, id) ==
    IF ~loaded THEN [raised |-> FALSE, value |-> ModelNotLoaded]
    ELSE IF outcome = "raises" THEN [raised |-> TRUE, value |-> RaisedOut]
    ELSE [raised |-> FALSE, value |-> CleanResponse(id)]
GenerateSync(loaded, outcome, id) ==
    IF ~loaded THEN [raised |-> FALSE, value |-> ModelNotLoaded]
    ELSE IF outcome = "raises" THEN [raised |-> FALSE, value |-> FallbackUtterance]
    ELSE [raised |-> FALSE, value |-> CleanResponse(id)]

\* queue.Queue.get: the oldest text and what stays behind
QueueGetNewest(q) == [item |-> q[Len(q)], rest |-> SubSeq(q, 1, Len(q) - 1)]
QueueGet(q) == [item |-> Head(q), rest |-> Tail(q)]

\* the worker holds a text: it is inside generate_sync or hands the result
\* to the callbacks
Serving == lpc \in {"generate", "callbacks", "clear"}

\* no generate() is in progress
GenQuiet == \A t \in GenCallers : gpc[t] = "idle"

\* the engine as constructed (llm_engine.py:18-51)
InitLLM ==
    /\ generation_queue = <<>>
    /\ response_callbacks = <<>>
    /\ is_loaded = FALSE
    /\ loads = 0
    /\ llm_workers_started = 0
    /\ gpc = [t \in GenCallers |-> "idle"]
    /\ gid = [t \in GenCallers |-> 0]
    /\ lpc = "none"
    /\ ltext = 0
    /\ lresponse = ModelNotLoaded
    /\ lidx = 0
    /\ gcalls = <<>>
    /\ genlog = <<>>
    /\ invoked = <<>>

\* load_model() succeeds; start_monitoring goes on only then (gui.py:284)
LoadModel ==
    /\ ~is_loaded
    /\ loads < MaxLoad
    /\ is_loaded' = TRUE
    /\ loads' = loads + 1
    /\ UNCHANGED <<generation_queue, response_callbacks, llm_workers_started,
                   gpc, gid, llmWorkerVars, gcalls, genlog, invoked>>
    /\ UNCHANGED otherThanLLM

\* unload_model(), called by stop_monitoring (gui.py:335)
UnloadModel ==
    /\ is_loaded
    /\ GenQuiet
    /\ is_loaded' = FALSE
    /\ UNCHANGED <<generation_queue, response_callbacks, loads,
                   llm_workers_started, gpc, gid, llmWorkerVars, gcalls,
                   genlog, invoked>>
    /\ UNCHANGED otherThanLLM

\* generate(event_text, callback) begins on thread t:
\* `if callback: self.response_callbacks.append(callback)`.  The text and
\* the callback of the n-th call are both named n.
GenerateBegin(t, hascb) ==
    /\ gpc[t] = "idle"
    /\ is_loaded
    /\ Len(gcalls) < MaxGen
    /\ gcalls' = Append(gcalls, [cb |-> hascb, served |-> Len(genlog),
                                 serving |-> IF Serving THEN ltext ELSE 0])
    /\ gid' = [gid EXCEPT ![t] = Len(gcalls) + 1]
    /\ response_callbacks' = IF hascb THEN Append(response_callbacks, Len(gcalls) + 1)
                                      ELSE response_callbacks
    /\ gpc' = [gpc EXCEPT ![t] = "put"]
    /\ UNCHANGED <<generation_queue, is_loaded, loads, llm_workers_started,
                   llmWorkerVars, genlog, invoked>>
    /\ UNCHANGED otherThanLLM

\* `self.generation_queue.put(event_text)`
GeneratePut(t) ==
    /\ gpc[t] = "put"
    /\ generation_queue' = Append(generation_queue, gid[t])
    /\ gpc' = [gpc EXCEPT ![t] = "start"]
    /\ UNCHANGED <<response_callbacks, is_loaded, loads, llm_workers_started,
                   gid, llmWorkerVars, gcalls, genlog, invoked>>
    /\ UNCHANGED otherThanLLM

\* `if self._worker_thread is None or not self._worker_thread.is_alive():
\*      self._start_worker()`, and generate returns
GenerateStart(t) ==
    /\ gpc[t] = "start"
    /\ IF llm_workers_started = 0 \/ lpc = "dead"
         THEN /\ llm_workers_started' = 1
              /\ lpc' = "loop"
         ELSE UNCHANGED <<llm_workers_started, lpc>>
    /\ gpc' = [gpc EXCEPT ![t] = "idle"]
    /\ gid' = [gid EXCEPT ![t] = 0]
    /\ UNCHANGED <<generation_queue, response_callbacks, is_loaded, loads,
                   ltext, lresponse, lidx, gcalls, genlog, invoked>>
    /\ UNCHANGED otherThanLLM

\* _worker_loop: `event_text = self.generation_queue.get(timeout=0.5)`
\* returns a text (on queue.Empty the loop comes back here)
LGet ==
    /\ lpc = "loop"
    /\ generation_queue # <<>>
    /\ ltext' = QueueGet(generation_queue).item
    /\ generation_queue' = QueueGet(generation_queue).rest
    /\ lpc' = "generate"
    /\ UNCHANGED <<response_callbacks, is_loaded, loads, llm_workers_started,
                   gpc, gid, lresponse, lidx, gcalls, genlog, invoked>>
    /\ UNCHANGED otherThanLLM

\* `response = self.generate_sync(event_text)`; an exception that came out of
\* it would be caught by the loop's outer `except Exception`, with the
\* callbacks neither called nor cleared
LGenerate(outcome) ==
    /\ lpc = "generate"
    /\ LET r == GenerateSync(is_loaded, outcome, ltext)
       IN  /\ genlog' = Append(genlog,
                   [text |-> ltext,
                    outcome |-> IF ~is_loaded THEN "not_loaded" ELSE outcome,
                    result |-> r.value])
           /\ IF r.raised
                THEN /\ lpc' = Caught("loop")
                     /\ ltext' = 0
                     /\ UNCHANGED <<lresponse, lidx>>
                ELSE /\ lpc' = "callbacks"
                     /\ lresponse' = r.value
                     /\ lidx' = 0
                     /\ UNCHANGED ltext
    /\ UNCHANGED <<generation_queue, response_callbacks, is_loaded, loads,
                   llm_workers_started, gpc, gid, gcalls, invoked>>
    /\ UNCHANGED otherThanLLM

\* `for callback in self.response_callbacks:` takes the next element of the
\* live list and calls it; what the callback raises is caught and printed
LCallback(cbRaises) ==
    /\ lpc = "callbacks"
    /\ lidx < Len(response_callbacks)
    /\ invoked' = Append(invoked, [cb |-> response_callbacks[lidx + 1],
                                   item |-> Len(genlog),
                                   result |-> lresponse,
                                   raised |-> cbRaises])
    /\ lidx' = lidx + 1
    /\ lpc' = IF cbRaises THEN Caught("callbacks") ELSE "callbacks"
    /\ UNCHANGED <<generation_queue, response_callbacks, is_loaded, loads,
                   llm_workers_started, gpc, gid, ltext, lresponse,
                   gcalls, genlog>>
    /\ UNCHANGED otherThanLLM

\* the iteration finds no further element and the loop ends
LCallbacksEnd ==
    /\ lpc = "callbacks"
    /\ lidx >= Len(response_callbacks)
    /\ lpc' = "clear"
    /\ UNCHANGED <<generation_queue, response_callbacks, is_loaded, loads,
                   llm_workers_started, gpc, gid, ltext, lresponse, lidx,
                   gcalls, genlog, invoked>>
    /\ UNCHANGED otherThanLLM

\* `self.response_callbacks.clear()`
LClear ==
    /\ lpc = "clear"
    /\ response_callbacks' = <<>>
    /\ lpc' = "loop"
    /\ ltext' = 0
    /\ lidx' = 0
    /\ UNCHANGED <<generation_queue, is_loaded, loads, llm_workers_started,
                   gpc, gid, lresponse, gcalls, genlog, invoked>>
    /\ UNCHANGED otherThanLLM

\* The Generation Dispatcher: generate() calls that do not overlap one
\* another, each interleaved step by step with the worker thread.
NextLLM ==
    \/ LoadModel
    \/ UnloadModel
    \/ \E t \in GenCallers, hascb \in BOOLEAN : GenQuiet /\ GenerateBegin(t, hascb)
    \/ \E t \in GenCallers : GeneratePut(t)
    \/ \E t \in GenCallers : GenerateStart(t)
    \/ LGet
    \/ \E outcome \in LlmOutcomes : LGenerate(outcome)
    \/ \E cbRaises \in BOOLEAN : LCallback(cbRaises)
    \/ LCallbacksEnd
    \/ LClear

\* ========================================================================
\* The File Tailer (journal_watcher.py)
\* ========================================================================

\* A journal file is a sequence of write units.  The game appends a line in
\* one write ("whole") or in two (its "head", later its "tail", which ends
\* with the newline).  Byte offsets count units.
\*
\* The kinds of line: "LoadGame" and "Docked" stand for the state events of
\* _read_initial_state (LoadGame is the one that ends its backward scan),
\* "Music" for every other well-formed event, "bad" for text that
\* json.loads rejects, "notdict" for a JSON document that is no object (a
\* number, a string, a list, null), which json.loads returns as a value
\* without a .get.
LineKinds == {"LoadGame", "Docked", "Music", "bad", "notdict"}
StateEvents == {"LoadGame", "Docked"}
NoFile == 0

\* the lines that `for line in f` yields for the units u that follow offset
\* base: each with what json.loads makes of it.  A head that the file ends
\* with is yielded as a line without newline, a tail whose head lies before
\* the offset as a line of its own; the prefix and the suffix of a JSON
\* object are no JSON documents.
RECURSIVE LinesFrom(_, _)
LinesFrom(u, base) ==
    IF u = <<>> THEN <<>>
    ELSE IF u[1].part = "whole"
      THEN <<[kind |-> u[1].kind, at |-> base + 1, complete |-> TRUE]>>
               \o LinesFrom(Tail(u), base + 1)
    ELSE IF u[1].part = "head" /\ Len(u) >= 2
      THEN <<[kind |-> u[1].kind, at |-> base + 2, complete |-> TRUE]>>
               \o LinesFrom(Tail(Tail(u)), base + 2)
    ELSE <<[kind |-> "bad", at |-> base + 1, complete |-> FALSE]>>
               \o LinesFrom(Tail(u), base + 1)

\* json.loads(line) returns
Parses(l) == l.kind # "bad"

\* the record the callback is called with
Record(l, silent) == [at |-> l.at, kind |-> l.kind, silent |-> silent]
Records(ls, silent) == [i \in 1..Len(ls) |-> Record(ls[i], silent)]

\* the `InitialStateLoaded` record that ends the bootstrap
SummaryRecord == [at |-> 0, kind |-> "InitialStateLoaded", silent |-> FALSE]

\* _read_initial_state: the scan of reversed(lines) from line i downwards
\* collects the state events and stops at a LoadGame; the result is in
\* forward order, as the second loop walks reversed(events_found)
RECURSIVE EventsFound(_, _)
EventsFound(lines, i) ==
    IF i = 0 THEN <<>>
    ELSE IF Parses(lines[i]) /\ lines[i].kind \in StateEvents
      THEN IF lines[i].kind = "LoadGame"
             THEN <<lines[i]>>
             ELSE EventsFound(lines, i - 1) \o <<lines[i]>>
    ELSE EventsFound(lines, i - 1)

\* _read_initial_state: `event_data.get("event", "")` raises AttributeError
\* when the scan of reversed(lines) from line i downwards meets a value that
\* is no dict before it meets a LoadGame.  The try blocks around it catch
\* json.JSONDecodeError, IOError and OSError only.
RECURSIVE ScanRaises(_, _)
ScanRaises(lines, i) ==
    IF i = 0 THEN FALSE
    ELSE IF ~Parses(lines[i]) THEN ScanRaises(lines, i - 1)
    ELSE IF lines[i].kind = "notdict" THEN TRUE
    ELSE IF lines[i].kind = "LoadGame" THEN FALSE
    ELSE ScanRaises(lines, i - 1)

\* st_size
Size(f) == Len(content[f])

\* set_journal_file: `self.last_position = journal_path.stat().st_size` if
\* the file exists, else 0
AttachPositionZero(exists, size) == 0
AttachPosition(exists, size) == IF exists THEN size ELSE 0

\* max(journal_files, key=lambda p: p.stat().st_mtime): a file no other file
\* is newer than.  Among files of one mtime max() returns the first in the
\* order glob() listed them, which the file system decides.
OldestOf(files, mt) == {f \in files : \A g \in files : mt[f] <= mt[g]}

NewestOf(files, mt) == {f \in files : \A g \in files : mt[g] <= mt[f]}

\* _find_latest_journal in the tailer's directory, which exists and holds
\* journal files only.  Every write falls into a later tick of the clock than
\* the one before it, so no two files have the same mtime.
Latest == NewestOf(journal_files, mtime)

NoCall ==
    [op |-> "none", file |-> NoFile, from |-> 0, to |-> 0, size |-> 0,
     lines |-> <<>>, recs |-> <<>>, raised |-> FALSE, follows |-> FALSE,
     dirty |-> FALSE]

\* no journal file yet, no watcher started (journal_watcher.py:177-189)
InitTailer ==
    /\ journal_files = {}
    /\ content = [f \in FileIds |-> <<>>]
    /\ mtime = [f \in FileIds |-> 0]
    /\ clock = 0
    /\ writes = 0
    /\ is_running = FALSE
    /\ has_handler = FALSE
    /\ current_journal = NoFile
    /\ last_position = 0
    /\ loading_initial_state = FALSE
    /\ dirty = FALSE
    /\ called = FALSE
    /\ lastcall = NoCall
    /\ attach = [file |-> NoFile, bootstrap |-> FALSE, size |-> 0, outcome |-> "none"]

\* the game opens its next journal file
GameCreate(f) ==
    /\ f \notin journal_files
    /\ f = Cardinality(journal_files) + 1
    /\ journal_files' = journal_files \cup {f}
    /\ clock' = clock + 1
    /\ mtime' = [mtime EXCEPT ![f] = clock']
    /\ UNCHANGED <<content, writes, handlerVars, dirty, called, lastcall, attach>>
    /\ UNCHANGED otherThanTailer

\* the game appends to its journal, the file it created last: a whole line,
\* the head of a line, or the tail of the line whose head is the file's last
\* unit
GameWrite(f, kind, part) ==
    /\ f \in Latest
    /\ writes < MaxWrites
    /\ LET open == content[f] # <<>> /\ content[f][Len(content[f])].part = "head"
       IN  IF open
             THEN part = "tail" /\ kind = content[f][Len(content[f])].kind
             ELSE part \in {"whole", "head"}
    /\ content' = [content EXCEPT ![f] = Append(@, [kind |-> kind, part |-> part])]
    /\ writes' = writes + 1
    /\ clock' = clock + 1
    /\ mtime' = [mtime EXCEPT ![f] = clock']
    /\ dirty' = IF f = current_journal THEN TRUE ELSE dirty
    /\ UNCHANGED <<journal_files, handlerVars, called, lastcall, attach>>
    /\ UNCHANGED otherThanTailer

\* JournalWatcher.start(read_initial_state): a new handler is attached to
\* the latest journal f.  With read_initial_state the bootstrap hands the
\* state events and the summary record to the callback; the callback raises
\* at the k-th of them (k = 0: at none).  An exception of the callback, or
\* of the scan, leaves start() before the cursor is set and before the
\* observer is started.
Start(f, read_initial, k) ==
    /\ ~is_running
    /\ f \in Latest
    /\ LET lines == LinesFrom(content[f], 0)
           scanRaises == read_initial /\ ScanRaises(lines, Len(lines))
           found == IF read_initial /\ ~scanRaises
                      THEN Records(EventsFound(lines, Len(lines)), TRUE)
                               \o <<SummaryRecord>>
                      ELSE <<>>
           outcome == IF scanRaises THEN "scan raised"
                      ELSE IF k # 0 THEN "callback raised"
                      ELSE "attached"
       IN  /\ k <= Len(found)
           /\ has_handler' = TRUE
           /\ current_journal' = f
           /\ IF outcome = "attached"
                THEN /\ last_position' = AttachPosition(TRUE, Size(f))
                     /\ loading_initial_state' = FALSE
                     /\ is_running' = TRUE
                ELSE /\ last_position' = 0
                     /\ loading_initial_state' = TRUE
                     /\ is_running' = FALSE
           /\ lastcall' = [op |-> "start", file |-> f, from |-> 0,
                           to |-> last_position', size |-> Size(f),
                           lines |-> <<>>,
                           recs |-> IF k = 0 THEN found ELSE SubSeq(found, 1, k),
                           raised |-> outcome # "attached",
                           follows |-> FALSE, dirty |-> FALSE]
           /\ attach' = [file |-> f, bootstrap |-> read_initial, size |-> Size(f),
                         outcome |-> outcome]
    /\ dirty' = FALSE
    /\ called' = FALSE
    /\ UNCHANGED fileVars
    /\ UNCHANGED otherThanTailer

\* set_journal_file(f, read_initial=True) up to the end of
\* _read_initial_state: readlines() has read the file as it is now, and the
\* callback got the state events and the summary record (it raises at the
\* k-th of them; k = 0: at none).  The game is another process and may append
\* before the next statement runs.
AttachRead(f, k) ==
    /\ ~is_running
    /\ attach.outcome # "bootstrapped"
    /\ f \in Latest
    /\ LET lines == LinesFrom(content[f], 0)
           scanRaises == ScanRaises(lines, Len(lines))
           found == IF ~scanRaises
                      THEN Records(EventsFound(lines, Len(lines)), TRUE)
                               \o <<SummaryRecord>>
                      ELSE <<>>
           outcome == IF scanRaises THEN "scan raised"
                      ELSE IF k # 0 THEN "callback raised"
                      ELSE "bootstrapped"
       IN  /\ k <= Len(found)
           /\ has_handler' = TRUE
           /\ current_journal' = f
           /\ last_position' = 0
           /\ loading_initial_state' = (outcome # "bootstrapped")
           /\ lastcall' = [op |-> "start", file |-> f, from |-> 0,
                           to |-> 0, size |-> Size(f), lines |-> <<>>,
                           recs |-> IF k = 0 THEN found ELSE SubSeq(found, 1, k),
                           raised |-> outcome # "bootstrapped",
                           follows |-> FALSE, dirty |-> FALSE]
           /\ attach' = [file |-> f, bootstrap |-> TRUE, size |-> Size(f),
                         outcome |-> outcome]
    /\ dirty' = FALSE
    /\ called' = FALSE
    /\ UNCHANGED <<fileVars, is_running>>
    /\ UNCHANGED otherThanTailer

\* `self.last_position = journal_path.stat().st_size` with the size the file
\* has by now, then start() schedules the handler and starts the observer
AttachSeek ==
    /\ attach.outcome = "bootstrapped"
    /\ last_position' = AttachPosition(TRUE, Size(current_journal))
    /\ is_running' = TRUE
    /\ attach' = [attach EXCEPT !.outcome = "attached"]
    /\ lastcall' = [lastcall EXCEPT !.to = last_position']
    /\ UNCHANGED <<fileVars, has_handler, current_journal, loading_initial_state,
                   dirty, called>>
    /\ UNCHANGED otherThanTailer

\* JournalWatcher.stop()
Stop ==
    /\ is_running
    /\ is_running' = FALSE
    /\ UNCHANGED <<fileVars, has_handler, current_journal, last_position,
                   loading_initial_state, dirty, called, lastcall, attach>>
    /\ UNCHANGED otherThanTailer

\* on_modified for the attached file, and _read_new_events: the lines after
\* the cursor are read, every line that parses is handed to the callback,
\* and the cursor is set to f.tell().  The callback raises at the k-th
\* record (k = 0: at none); the exception is neither a JSONDecodeError nor
\* an OSError and leaves _read_new_events at once.  The callback is
\* _handle_event, whose first statement, GameStateTracker.update, calls .get
\* on the value: it raises at a value that is no dict, if not before.
OnFileChanged(k) ==
    /\ is_running
    /\ has_handler
    /\ current_journal # NoFile
    /\ LET f == current_journal
           lines == LinesFrom(SubSeq(content[f], last_position + 1, Size(f)),
                              last_position)
           recs == Records(SelectSeq(lines, Parses), FALSE)
       IN  /\ k <= Len(recs)
           /\ \A i \in 1..Len(recs) : recs[i].kind = "notdict" => (k # 0 /\ k <= i)
           /\ last_position' = IF k = 0 THEN Size(f) ELSE last_position
           /\ lastcall' = [op |-> "changed", file |-> f, from |-> last_position,
                           to |-> last_position', size |-> Size(f),
                           lines |-> lines,
                           recs |-> IF k = 0 THEN recs ELSE SubSeq(recs, 1, k),
                           raised |-> k # 0, follows |-> called, dirty |-> dirty]
    /\ dirty' = FALSE
    /\ called' = TRUE
    /\ UNCHANGED <<fileVars, is_running, has_handler, current_journal,
                   loading_initial_state, attach>>
    /\ UNCHANGED otherThanTailer

\* check_for_new_journal: the latest journal f is not the attached one, and
\* set_journal_file(f) attaches to it without bootstrap
PollForRotation(f) ==
    /\ has_handler
    /\ f \in Latest
    /\ current_journal # f
    /\ current_journal' = f
    /\ last_position' = AttachPosition(f \in journal_files, Size(f))
    /\ lastcall' = [op |-> "poll", file |-> f, from |-> last_position,
                    to |-> last_position', size |-> Size(f),
                    lines |-> <<>>, recs |-> <<>>, raised |-> FALSE,
                    follows |-> FALSE, dirty |-> FALSE]
    /\ attach' = [file |-> f, bootstrap |-> FALSE, size |-> Size(f),
                  outcome |-> "attached"]
    /\ dirty' = FALSE
    /\ called' = FALSE
    /\ UNCHANGED <<fileVars, is_running, has_handler, loading_initial_state>>
    /\ UNCHANGED otherThanTailer

\* The Tailer and the game that writes the journal
NextTailer ==
    \/ \E f \in FileIds : GameCreate(f)
    \/ \E f \in FileIds, kind \in LineKinds, part \in {"whole", "head", "tail"} :
          GameWrite(f, kind, part)
    \/ \E f \in FileIds, read_initial \in BOOLEAN, k \in 0..(MaxWrites + 1) :
          Start(f, read_initial, k)
    \/ Stop
    \/ \E k \in 0..MaxWrites : OnFileChanged(k)
    \/ \E f \in FileIds : PollForRotation(f)

\* The File Tailer with the attach in two steps, so that the game's writes
\* fall between them as well
NextAttach ==
    \/ \E f \in FileIds : GameCreate(f)
    \/ \E f \in FileIds, kind \in LineKinds, part \in {"whole", "head", "tail"} :
          GameWrite(f, kind, part)
    \/ \E f \in FileIds, k \in 0..(MaxWrites + 1) : AttachRead(f, k)
    \/ AttachSeek
    \/ Stop
    \/ \E k \in 0..MaxWrites : OnFileChanged(k)

\* ========================================================================
\* Specifications
\* ========================================================================
\* ------------------------------------------------------------------------
\* JournalWatcher._find_latest_journal as a function of the directory
\* ------------------------------------------------------------------------
Names == 1..MaxNames

\* an entry of the directory: whether the name is there, whether it matches
\* Journal.*.log, its st_mtime
Listings ==
    {l \in [Names -> [present : BOOLEAN, matches : BOOLEAN, mtime : 0..MaxMtime]] :
        \A n \in Names : ~l[n].present => (~l[n].matches /\ l[n].mtime = 0)}

NoListing == [n \in Names |-> [present |-> FALSE, matches |-> FALSE, mtime |-> 0]]

\* self.journal_dir.glob("Journal.*.log")
Glob(dir) == {n \in Names : dir.entries[n].present /\ dir.entries[n].matches}

\* the values _find_latest_journal can return; NoFile is None
FindLatestJournal(dir) ==
    IF ~dir.exists
    THEN {NoFile}
    ELSE LET found == Glob(dir)
         IN  IF found = {}
             THEN {NoFile}
             ELSE NewestOf(found, [n \in Names |-> dir.entries[n].mtime])

NotSearched == [done |-> FALSE, path |-> NoFile]

IdleSelect ==
    /\ journal_dir = [exists |-> TRUE, entries |-> NoListing]
    /\ latest_journal = NotSearched

\* any directory: absent, or there with any listing
InitSelect ==
    /\ journal_dir \in {[exists |-> FALSE, entries |-> NoListing]}
                        \cup {[exists |-> TRUE, entries |-> l] : l \in Listings}
    /\ latest_journal = NotSearched

FindLatest ==
    /\ ~latest_journal.done
    /\ \E p \in FindLatestJournal(journal_dir) :
            latest_journal' = [done |-> TRUE, path |-> p]
    /\ UNCHANGED journal_dir
    /\ UNCHANGED otherThanSelect

NextSelect == FindLatest

\* ========================================================================
\* The Classifier (event_parser.py), the State Tracker (game_state.py) and
\* the record callback that joins them (gui.py, _handle_event)
\* ========================================================================

\* The types of record: the ones GameState.update_from_event tells apart for
\* the movement flags and the fuel, "ShieldState" (a state event that is
\* urgent and has a canned response), "Bounty", "Music" for every type that
\* nothing knows, and the summary record of the bootstrap.
EventTypes == {"LoadGame", "FSDJump", "SupercruiseEntry", "SupercruiseExit",
               "Docked", "ShipRefuelled", "ShieldState", "Bounty", "Music",
               "InitialStateLoaded"}

\* state_events of _read_initial_state, as far as EventTypes has them
BootstrapEvents == {"LoadGame", "FSDJump", "SupercruiseEntry", "SupercruiseExit",
                    "Docked", "ShipRefuelled", "ShieldState"}

\* a key the record does not have
Absent == -1

\* tonnes of fuel in LoadGame (FuelLevel <= FuelCapacity) and ShipRefuelled
FuelCapacities == {16, 32}
FuelLevels == {0, 16}
FuelAmounts == {16, 64}

NoFields == [FuelLevel |-> Absent, FuelCapacity |-> Absent, Amount |-> Absent]

\* the fields a record of type e can carry
FieldsOf(e) ==
    {NoFields}
    \cup (IF e = "LoadGame"
            THEN UNION {{[FuelLevel |-> l, FuelCapacity |-> c, Amount |-> Absent] :
                            l \in {x \in FuelLevels : x <= c}} : c \in FuelCapacities}
            ELSE {})
    \cup (IF e = "ShipRefuelled"
            THEN {[FuelLevel |-> Absent, FuelCapacity |-> Absent, Amount |-> a] :
                      a \in FuelAmounts}
            ELSE {})

\* the records the Tailer calls the callback with: the bootstrap tags state
\* events only (`_initial_state_loading`), and its summary record is not
\* tagged; everything else comes from _read_new_events, untagged
Records_ ==
    {[event |-> e, silent |-> s, fields |-> d] :
        e \in EventTypes, s \in BOOLEAN, d \in UNION {FieldsOf(x) : x \in EventTypes}}

\* the records whose fields are those of their type
AllRecords == {r \in Records_ : r.fields \in FieldsOf(r.event)}

Deliverable == {r \in AllRecords : r.silent => r.event \in BootstrapEvents}

\* ------------------------------------------------------------------------
\* EventParser
\* ------------------------------------------------------------------------
\* events_whitelist and urgent_events of config.py, as far as EventTypes has
\* them
DefaultWhitelist == {"FSDJump", "ShieldState", "Bounty"}
DefaultUrgent == {"ShieldState"}

\* is_relevant: `event_name in self.whitelist`
IsRelevantAlways(rec, wl) == TRUE
IsRelevant(rec, wl) == rec.event \in wl

\* is_urgent: `event_name in self.urgent_events`
IsUrgentNever(rec, ue) == FALSE
IsUrgent(rec, ue) == rec.event \in ue

\* the arrival test made before the urgent test
PriorityHighFirst(rec, ue) ==
    IF rec.event \in {"FSDJump", "DockingGranted", "Scan"} THEN HIGH
    ELSE IF IsUrgent(rec, ue) THEN URGENT
    ELSE IF rec.event \in {"MaterialCollected", "Bounty", "MissionCompleted"} THEN NORMAL
    ELSE LOW

\* the priority parse() gives
PriorityOf(rec, ue) ==
    IF IsUrgent(rec, ue) THEN URGENT
    ELSE IF rec.event \in {"FSDJump", "DockingGranted", "Scan"} THEN HIGH
    ELSE IF rec.event \in {"MaterialCollected", "Bounty", "MissionCompleted"} THEN NORMAL
    ELSE LOW

\* _format_event: the formatter registered for the type, else _format_generic
Formatters == {"FSDJump", "ShieldState", "Bounty", "SupercruiseEntry",
               "SupercruiseExit", "LoadGame"}
FormatEvent(rec) == IF rec.event \in Formatters THEN rec.event ELSE "Event detected"

\* parse() returned None
NoParsedEvent ==
    [some |-> FALSE, event_type |-> "", priority |-> 0, formatted_text |-> "",
     is_urgent |-> FALSE]

\* EventParser.parse
Parse(rec, wl, ue) ==
    IF ~IsRelevant(rec, wl)
    THEN NoParsedEvent
    ELSE [some |-> TRUE, event_type |-> rec.event, priority |-> PriorityOf(rec, ue),
          formatted_text |-> FormatEvent(rec), is_urgent |-> IsUrgent(rec, ue)]

\* get_canned_response never returning None
HasCannedResponseAlways(e) == TRUE

\* CANNED_RESPONSES has an entry for the type
HasCannedResponse(e) == e \in {"ShipLowFuel", "Died", "ShieldState"}

\* ------------------------------------------------------------------------
\* GameState.update_from_event
\* ------------------------------------------------------------------------
\* `if len(self.recent_events) > 10: self.recent_events = self.recent_events[-10:]`
KeepOldest(s) == IF Len(s) > RecentKept THEN SubSeq(s, 1, RecentKept) ELSE s
KeepLatest(s) == IF Len(s) > RecentKept THEN SubSeq(s, Len(s) - RecentKept + 1, Len(s)) ELSE s

\* the movement flags after a record of type e
MovementKept(e, sc, ns) ==
    IF e = "SupercruiseEntry" THEN [sc |-> TRUE, ns |-> ns]
    ELSE IF e \in {"FSDJump", "SupercruiseExit"} THEN [sc |-> sc, ns |-> TRUE]
    ELSE [sc |-> sc, ns |-> ns]

MovementReset(e, sc, ns) ==
    IF e = "SupercruiseEntry" THEN [sc |-> TRUE, ns |-> FALSE]
    ELSE IF e \in {"FSDJump", "SupercruiseExit"} THEN [sc |-> FALSE, ns |-> TRUE]
    ELSE [sc |-> FALSE, ns |-> FALSE]

Movement(e, sc, ns) ==
    IF e = "FSDJump" THEN [sc |-> FALSE, ns |-> TRUE]
    ELSE IF e = "SupercruiseEntry" THEN [sc |-> TRUE, ns |-> FALSE]
    ELSE IF e = "SupercruiseExit" THEN [sc |-> FALSE, ns |-> TRUE]
    ELSE IF e = "Docked" THEN [sc |-> FALSE, ns |-> FALSE]
    ELSE [sc |-> sc, ns |-> ns]

\* event_data.get(key, default)
Get(value, default) == IF value = Absent THEN default ELSE value

Min(a, b) == IF a <= b THEN a ELSE b

\* fuel_level and fuel_capacity after the record
Fuel(rec, level, capacity) ==
    IF rec.event = "LoadGame"
    THEN [level |-> Get(rec.fields.FuelLevel, level),
          capacity |-> Get(rec.fields.FuelCapacity, capacity)]
    ELSE IF rec.event = "ShipRefuelled"
    THEN [level |-> Min(capacity, level + Get(rec.fields.Amount, 0)),
          capacity |-> capacity]
    ELSE [level |-> level, capacity |-> capacity]

\* update_from_event(rec); the entry of recent_events is the number of the
\* update call the record came with
UpdateFromEvent(rec) ==
    /\ updates' = updates + 1
    /\ recent_events' = KeepLatest(Append(recent_events, updates + 1))
    /\ in_supercruise' = Movement(rec.event, in_supercruise, in_normal_space).sc
    /\ in_normal_space' = Movement(rec.event, in_supercruise, in_normal_space).ns
    /\ docked' = IF rec.event = "Docked" THEN TRUE
                 ELSE IF rec.event \in {"FSDJump", "Undocked"} THEN FALSE
                 ELSE docked
    /\ fuel_level' = Fuel(rec, fuel_level, fuel_capacity).level
    /\ fuel_capacity' = Fuel(rec, fuel_level, fuel_capacity).capacity

\* GameState(): the defaults of the dataclass
InitGameState ==
    /\ updates = 0
    /\ recent_events = <<>>
    /\ in_supercruise = FALSE
    /\ in_normal_space = FALSE
    /\ docked = FALSE
    /\ fuel_level = DefaultFuelLevel
    /\ fuel_capacity = DefaultFuelCapacity

\* ------------------------------------------------------------------------
\* EDAIApp._handle_event
\* ------------------------------------------------------------------------
NoSpeak == 0

NotHandled ==
    [rec |-> [event |-> "", silent |-> FALSE, fields |-> NoFields],
     generate |-> FALSE, speak |-> NoSpeak]

NotParsed ==
    [rec |-> [event |-> "", silent |-> FALSE, fields |-> NoFields],
     result |-> NoParsedEvent]

\* `event_data.get("_initial_state_loading", False)`
TagIgnored(rec) == FALSE
Tagged(rec) == rec.silent

\* what _handle_event submits for the record, after the update of the game
\* state: to LLMEngine.generate, and to TTSEngine.speak with which priority.
\* _announce_initial_state always has a description, since
\* get_context_description always reports the fuel.
Submits(rec, wl, ue, raw) ==
    IF rec.event = "InitialStateLoaded"
    THEN [generate |-> ~raw, speak |-> IF raw THEN NORMAL ELSE NoSpeak]
    ELSE IF Tagged(rec) \/ ~Parse(rec, wl, ue).some
    THEN [generate |-> FALSE, speak |-> NoSpeak]
    ELSE IF Parse(rec, wl, ue).is_urgent /\ HasCannedResponse(rec.event)
    THEN [generate |-> FALSE, speak |-> URGENT]
    ELSE IF raw
    THEN [generate |-> FALSE, speak |-> NORMAL]
    ELSE [generate |-> TRUE, speak |-> NoSpeak]

\* no bootstrap replay under way
NoSnapshot == [sc |-> FALSE, ns |-> FALSE, docked |-> FALSE, level |-> Absent,
               capacity |-> Absent]

NotReplaying == [seq |-> <<>>, pass |-> 0, pos |-> 0, first |-> NoSnapshot]

IdleReplay == replay = NotReplaying

\* the parser and the configuration start_monitoring works with
IdleApp ==
    /\ whitelist = DefaultWhitelist
    /\ urgent_events = DefaultUrgent
    /\ raw_data_mode = FALSE
    /\ InitGameState
    /\ handled = NotHandled
    /\ parsed = NotParsed

\* any configuration of the allow-list, the urgent set and the raw data mode
Configured(listed, urgent) ==
    /\ whitelist \in SUBSET listed
    /\ urgent_events \in SUBSET urgent
    /\ raw_data_mode \in BOOLEAN
    /\ InitGameState
    /\ handled = NotHandled
    /\ parsed = NotParsed

InitApp == Configured(AppConfigTypes, DefaultUrgent)
InitParser == Configured(ParserConfigTypes, ParserConfigTypes)
\* urgent sets that hold a type without a canned response
InitUrgent == Configured(AppConfigTypes, AppConfigTypes)

\* _handle_event(rec) after the update of the game state: parse and the
\* submissions
Submitting(rec) ==
    /\ handled' = [rec |-> rec,
                   generate |-> Submits(rec, whitelist, urgent_events, raw_data_mode).generate,
                   speak |-> Submits(rec, whitelist, urgent_events, raw_data_mode).speak]
    /\ parsed' = IF rec.event = "InitialStateLoaded"
                   THEN parsed
                   ELSE [rec |-> rec, result |-> Parse(rec, whitelist, urgent_events)]
    /\ UNCHANGED configVars

\* _handle_event(rec): the update of the game state, then the submissions
Handling(rec) ==
    /\ updates < MaxUpdates
    /\ UpdateFromEvent(rec)
    /\ Submitting(rec)

\* the callback of the Tailer
HandleEvent(rec) ==
    /\ Handling(rec)
    /\ UNCHANGED otherThanApp

\* EventParser.parse on its own
ParseRecord(rec) ==
    /\ parsed' = [rec |-> rec, result |-> Parse(rec, whitelist, urgent_events)]
    /\ UNCHANGED <<configVars, stateVars, handled>>
    /\ UNCHANGED otherThanApp

NextApp == \E rec \in Deliverable : HandleEvent(rec)

NextParser == \E rec \in AllRecords : ParseRecord(rec)

\* the types parse() tells apart when it picks the priority, and one it
\* does not name
PriorityTypes == {"FSDJump", "DockingGranted", "Scan", "MaterialCollected",
                  "Bounty", "MissionCompleted", "Music"}

PriorityRecords ==
    {[event |-> e, silent |-> FALSE, fields |-> NoFields] : e \in PriorityTypes}

AnyPriorities == Configured(PriorityTypes, PriorityTypes)

NextPriority == \E rec \in PriorityRecords : ParseRecord(rec)

\* ------------------------------------------------------------------------
\* update_from_event statement by statement on the watch thread, and the
\* reads of get_chat_context on the control thread (ChatWindow.send_message);
\* game_state.py takes no lock
\* ------------------------------------------------------------------------
NoRecord == [event |-> "", silent |-> FALSE, fields |-> NoFields]

NothingSeen == [read |-> FALSE, len |-> 0, partial |-> FALSE]

IdleRace ==
    /\ upc = "idle"
    /\ urec = NoRecord
    /\ seen = NothingSeen

\* `self.recent_events.append({...})`
UpdateAppend(rec) ==
    /\ upc = "idle"
    /\ updates < MaxUpdates
    /\ ~rec.silent
    /\ updates' = updates + 1
    /\ recent_events' = Append(recent_events, updates + 1)
    /\ urec' = rec
    /\ upc' = "trim"
    /\ UNCHANGED <<in_supercruise, in_normal_space, docked, fuel_level, fuel_capacity>>
    /\ UNCHANGED <<configVars, handled, parsed, seen>>
    /\ UNCHANGED otherThanAppRace

\* `if len(self.recent_events) > 10: self.recent_events = self.recent_events[-10:]`
UpdateTrim ==
    /\ upc = "trim"
    /\ recent_events' = KeepLatest(recent_events)
    /\ upc' = "branch"
    /\ UNCHANGED <<in_supercruise, in_normal_space, docked, fuel_level, fuel_capacity,
                   updates>>
    /\ UNCHANGED <<configVars, handled, parsed, urec, seen>>
    /\ UNCHANGED otherThanAppRace

\* the branch of the if/elif chain for the record's type
UpdateBranch ==
    /\ upc = "branch"
    /\ in_supercruise' = Movement(urec.event, in_supercruise, in_normal_space).sc
    /\ in_normal_space' = Movement(urec.event, in_supercruise, in_normal_space).ns
    /\ docked' = IF urec.event = "Docked" THEN TRUE
                 ELSE IF urec.event \in {"FSDJump", "Undocked"} THEN FALSE
                 ELSE docked
    /\ fuel_level' = Fuel(urec, fuel_level, fuel_capacity).level
    /\ fuel_capacity' = Fuel(urec, fuel_level, fuel_capacity).capacity
    /\ urec' = NoRecord
    /\ upc' = "idle"
    /\ UNCHANGED <<recent_events, updates>>
    /\ UNCHANGED <<configVars, handled, parsed, seen>>
    /\ UNCHANGED otherThanAppRace

\* get_chat_context: the description of the fields and the recent events as
\* they are at this moment
GetChatContext ==
    /\ seen' = [read |-> TRUE, len |-> Len(recent_events), partial |-> upc # "idle"]
    /\ UNCHANGED <<upc, urec>>
    /\ UNCHANGED otherThanRace

NextRace ==
    \/ \E rec \in Deliverable : UpdateAppend(rec)
    \/ UpdateTrim
    \/ UpdateBranch
    \/ GetChatContext

\* ------------------------------------------------------------------------
\* Arrival records: _handle_event -> parse -> _format_fsd_jump ->
\* _get_system_info (event_parser.py) -> EDSMAPI.get_system_info (edsm.py).
\* The bootstrap runs inside JournalWatcher.start(), which start_monitoring
\* calls on the control thread; live records come on the watch thread.
\* ------------------------------------------------------------------------
LookupThreads == {"control", "watch"}

ThreadOf(rec) ==
    IF rec.silent \/ rec.event = "InitialStateLoaded" THEN "control" ELSE "watch"

\* the StarSystem and Body fields of an arrival record; NoName for a key
\* the record does not have
NoName == ""
Arrivals == {[StarSystem |-> "Sol", Body |-> "Earth"],
             [StarSystem |-> NoName, Body |-> NoName]}

\* data.get(key, default) for a name
GetName(value, default) == IF value = NoName THEN default ELSE value

SystemNames == {"Sol", "Unknown System"}

\* the records handled where lookups are followed
LookupRecords ==
    {r \in Deliverable : r.event \in {"FSDJump", "Music", "InitialStateLoaded"}}

\* `self.use_edsm = use_edsm and EDSM_AVAILABLE`: start_monitoring leaves
\* use_edsm at its default, and edsm.py imports where requests is installed
UseEdsm == TRUE

\* the call enters _get_system_info: parse() goes on to format the record
\* only if it is relevant
LooksUp(rec, wl) == rec.event = "FSDJump" /\ IsRelevant(rec, wl) /\ UseEdsm

\* what the network request comes to
LookupOutcomes == {"description", "absent", "timeout", "fails"}

\* EDSMAPI.get_system_info: a SystemInfo, or None when the system is not
\* found; requests.RequestException (a timeout among them) and every other
\* exception are caught and None is returned
GetSystemInfoPropagates(outcome) ==
    [raised |-> outcome \in {"timeout", "fails"},
     value |-> IF outcome = "description" THEN "SystemInfo" ELSE "None"]
GetSystemInfo(outcome) ==
    [raised |-> FALSE, value |-> IF outcome = "description" THEN "SystemInfo" ELSE "None"]

\* the cache lock once the `with self.cache_lock:` block of the cache test is left
HeldThroughLookup(t) == t
ReleasedAfterCheck(t) == "free"

\* _format_fsd_jump: the parts of the sentence
FormatFsdJump(arrival, info) ==
    <<"Arrived in", GetName(arrival.StarSystem, "Unknown System")>>
    \o (IF info = "SystemInfo" THEN <<"description">> ELSE <<>>)
    \o (IF GetName(arrival.Body, "Unknown Body") # "Unknown Body" THEN <<"Near", arrival.Body>> ELSE <<>>)

NoLookup == [rec |-> NoRecord, arrival |-> [StarSystem |-> NoName, Body |-> NoName],
           info |-> "None", outcome |-> "", raised |-> FALSE]

NotFormatted == [done |-> FALSE, thread |-> "", system |-> "", outcome |-> "",
                 raised |-> FALSE, text |-> <<>>]

IdleLookup ==
    /\ system_cache = [n \in SystemNames |-> "missing"]
    /\ cache_lock = "free"
    /\ kpc = [t \in LookupThreads |-> "idle"]
    /\ kcall = [t \in LookupThreads |-> NoLookup]
    /\ requested = {}
    /\ formatted = NotFormatted

KeyOf(t) == GetName(kcall[t].arrival.StarSystem, "Unknown System")

\* _handle_event with a record that makes no lookup: the whole call
HandleOther(t, rec) ==
    /\ kpc[t] = "idle"
    /\ t = ThreadOf(rec)
    /\ ~LooksUp(rec, whitelist)
    /\ updates < MaxArrivals
    /\ Handling(rec)
    /\ UNCHANGED lookupVars
    /\ UNCHANGED otherThanAppLookup

\* _handle_event with an arrival record: the game state is updated, parse
\* finds the record relevant and _format_fsd_jump calls _get_system_info
HandleArrival(t, rec, arrival) ==
    /\ kpc[t] = "idle"
    /\ t = ThreadOf(rec)
    /\ LooksUp(rec, whitelist)
    /\ updates < MaxArrivals
    /\ UpdateFromEvent(rec)
    /\ kcall' = [kcall EXCEPT ![t] = [NoLookup EXCEPT !.rec = rec, !.arrival = arrival]]
    /\ kpc' = [kpc EXCEPT ![t] = "lock_check"]
    /\ UNCHANGED <<configVars, handled, parsed>>
    /\ UNCHANGED <<system_cache, cache_lock, requested, formatted>>
    /\ UNCHANGED otherThanAppLookup

\* `with self.cache_lock:` is entered, for the cache test or for the store
CacheAcquire(t) ==
    /\ kpc[t] \in {"lock_check", "lock_store"}
    /\ cache_lock = "free"
    /\ cache_lock' = t
    /\ kpc' = [kpc EXCEPT ![t] = IF kpc[t] = "lock_check" THEN "check" ELSE "store"]
    /\ UNCHANGED <<system_cache, kcall, requested, formatted>>
    /\ UNCHANGED otherThanLookup

\* `if system_name in self.system_cache: return self.system_cache[system_name]`
\* and the end of the with block
CacheCheck(t) ==
    /\ kpc[t] = "check"
    /\ IF system_cache[KeyOf(t)] # "missing"
         THEN /\ kcall' = [kcall EXCEPT ![t].info = system_cache[KeyOf(t)],
                                         ![t].outcome = "cached"]
              /\ kpc' = [kpc EXCEPT ![t] = "format"]
              /\ cache_lock' = "free"
         ELSE /\ kpc' = [kpc EXCEPT ![t] = "fetch"]
              /\ cache_lock' = ReleasedAfterCheck(t)
              /\ UNCHANGED kcall
    /\ UNCHANGED <<system_cache, requested, formatted>>
    /\ UNCHANGED otherThanLookup

\* `self.edsm_api.get_system_info(system_name)`: the request goes out
LookupSend(t) ==
    /\ kpc[t] = "fetch"
    /\ requested' = requested \cup {[thread |-> t, system |-> KeyOf(t), lock |-> cache_lock]}
    /\ kpc' = [kpc EXCEPT ![t] = "waiting"]
    /\ UNCHANGED <<system_cache, cache_lock, kcall, formatted>>
    /\ UNCHANGED otherThanLookup

\* the request ends (within the timeout of 5 seconds) and get_system_info
\* returns, or raises
LookupReturn(t, outcome) ==
    /\ kpc[t] = "waiting"
    /\ kcall' = [kcall EXCEPT ![t].info = GetSystemInfo(outcome).value,
                                ![t].outcome = outcome,
                                ![t].raised = GetSystemInfo(outcome).raised]
    /\ kpc' = [kpc EXCEPT ![t] = IF GetSystemInfo(outcome).raised THEN "format"
                                                                  ELSE "lock_store"]
    /\ UNCHANGED <<system_cache, cache_lock, requested, formatted>>
    /\ UNCHANGED otherThanLookup

\* `self.system_cache[system_name] = info` and the end of the with block
CacheStore(t) ==
    /\ kpc[t] = "store"
    /\ system_cache' = [system_cache EXCEPT ![KeyOf(t)] = kcall[t].info]
    /\ cache_lock' = "free"
    /\ kpc' = [kpc EXCEPT ![t] = "format"]
    /\ UNCHANGED <<kcall, requested, formatted>>
    /\ UNCHANGED otherThanLookup

\* _format_fsd_jump returns the sentence (or the exception goes on through
\* parse), and _handle_event goes on to its submissions
HandleArrivalEnds(t) ==
    /\ kpc[t] = "format"
    /\ formatted' = [done |-> TRUE, thread |-> t, system |-> KeyOf(t),
                      outcome |-> kcall[t].outcome, raised |-> kcall[t].raised,
                      text |-> IF kcall[t].raised THEN <<>>
                               ELSE FormatFsdJump(kcall[t].arrival, kcall[t].info)]
    /\ IF kcall[t].raised
         THEN UNCHANGED <<configVars, handled, parsed>>
         ELSE Submitting(kcall[t].rec)
    /\ kcall' = [kcall EXCEPT ![t] = NoLookup]
    /\ kpc' = [kpc EXCEPT ![t] = "idle"]
    /\ UNCHANGED stateVars
    /\ UNCHANGED <<system_cache, cache_lock, requested>>
    /\ UNCHANGED otherThanAppLookup

NextLookup ==
    \/ \E t \in LookupThreads, rec \in LookupRecords : HandleOther(t, rec)
    \/ \E t \in LookupThreads, rec \in LookupRecords, arrival \in Arrivals :
            HandleArrival(t, rec, arrival)
    \/ \E t \in LookupThreads : CacheAcquire(t)
    \/ \E t \in LookupThreads : CacheCheck(t)
    \/ \E t \in LookupThreads : LookupSend(t)
    \/ \E t \in LookupThreads, outcome \in LookupOutcomes : LookupReturn(t, outcome)
    \/ \E t \in LookupThreads : CacheStore(t)
    \/ \E t \in LookupThreads : HandleArrivalEnds(t)

\* ------------------------------------------------------------------------
\* LLMEngine._clean_response on a generated text.  A text is a sequence of
\* tokens: a space, a double quote, a single quote, a listed prefix, or
\* other text.
\* ------------------------------------------------------------------------
Space == " "
DoubleQuote == "dq"
SingleQuote == "sq"
Tokens == {Space, DoubleQuote, SingleQuote, "Response:", "AI:", "x"}

\* the texts of up to MaxText tokens
Texts == UNION {[1..n -> Tokens] : n \in 0..MaxText}

\* `for prefix in ["Response:", "AI:", ...]`: the list, in its order (of the
\* five prefixes the first two)
Prefixes == <<"Response:", "AI:">>

\* str.strip()
RECURSIVE LStrip(_)
LStrip(s) == IF s # <<>> /\ Head(s) = Space THEN LStrip(Tail(s)) ELSE s

RECURSIVE RStrip(_)
RStrip(s) ==
    IF s # <<>> /\ s[Len(s)] = Space THEN RStrip(SubSeq(s, 1, Len(s) - 1)) ELSE s

Strip(s) == RStrip(LStrip(s))

\* `if len(response) >= 2 and response[0] in '"\'"' and response[-1] ==
\* response[0]: response = response[1:-1]`
UnquoteAny(s) ==
    IF Len(s) >= 2 /\ s[1] \in {DoubleQuote, SingleQuote}
                   /\ s[Len(s)] \in {DoubleQuote, SingleQuote}
    THEN SubSeq(s, 2, Len(s) - 1) ELSE s
Unquote(s) ==
    IF Len(s) >= 2 /\ s[1] \in {DoubleQuote, SingleQuote} /\ s[Len(s)] = s[1]
    THEN SubSeq(s, 2, Len(s) - 1) ELSE s

\* the loop over the prefixes from the k-th on: `if
\* response.startswith(prefix): response = response[len(prefix):].strip()`,
\* with no break
RECURSIVE RemovePrefixes(_, _)
RemovePrefixes(s, k) ==
    IF k > Len(Prefixes) THEN s
    ELSE IF s # <<>> /\ Head(s) = Prefixes[k]
    THEN RemovePrefixes(Strip(Tail(s)), k + 1)
    ELSE RemovePrefixes(s, k + 1)

\* _clean_response(response)
CleanResponseText(s) == RemovePrefixes(Unquote(Strip(s)), 1)

NotCleaned == [done |-> FALSE, text |-> <<>>]

IdleClean ==
    /\ clean_in = <<>>
    /\ clean_out = NotCleaned

\* any generated text
InitClean ==
    /\ clean_in \in Texts
    /\ clean_out = NotCleaned

CleanGenerated ==
    /\ ~clean_out.done
    /\ clean_out' = [done |-> TRUE, text |-> CleanResponseText(clean_in)]
    /\ UNCHANGED clean_in
    /\ UNCHANGED otherThanClean

NextClean == CleanGenerated

\* ------------------------------------------------------------------------
\* The bootstrap replayed into the one SessionState (the tracker is a
\* singleton that start_monitoring and stop_monitoring leave alone)
\* ------------------------------------------------------------------------

\* events_found of _read_initial_state in forward order, each record tagged
\* silent: the scan stops at the last LoadGame, so only the first record can
\* be one
BootstrapSequences ==
    LET tagged == {r \in Deliverable : r.silent}
    IN  UNION {{s \in [1..n -> tagged] : \A i \in 2..n : s[i].event # "LoadGame"} :
                  n \in 1..MaxReplay}

InitialStateLoaded == [event |-> "InitialStateLoaded", silent |-> FALSE, fields |-> NoFields]

\* the location, movement and fuel fields of the SessionState after the step
FieldsAfter ==
    [sc |-> in_supercruise', ns |-> in_normal_space', docked |-> docked',
     level |-> fuel_level', capacity |-> fuel_capacity']

\* a live record, before monitoring is started on the journal replayed
LiveRecord(rec) ==
    /\ replay.pass = 0
    /\ updates < MaxLive
    /\ ~rec.silent
    /\ rec.event # "InitialStateLoaded"
    /\ Handling(rec)
    /\ UNCHANGED replay
    /\ UNCHANGED otherThanAppReplay

\* start(): the scan of _read_initial_state found the sequence s
BeginReplay(s) ==
    /\ replay.pass = 0
    /\ replay' = [seq |-> s, pass |-> 1, pos |-> 0, first |-> NoSnapshot]
    /\ UNCHANGED otherThanReplay

\* the callback with the next record of the sequence
ReplayRecord ==
    /\ replay.pass \in {1, 2}
    /\ replay.pos < Len(replay.seq)
    /\ Handling(replay.seq[replay.pos + 1])
    /\ replay' = [replay EXCEPT !.pos = @ + 1]
    /\ UNCHANGED otherThanAppReplay

\* the callback with the summary record, which ends the pass
ReplaySummary ==
    /\ replay.pass \in {1, 2}
    /\ replay.pos = Len(replay.seq)
    /\ Handling(InitialStateLoaded)
    /\ replay' = [replay EXCEPT !.pos = @ + 1,
                                 !.first = IF replay.pass = 1 THEN FieldsAfter ELSE @]
    /\ UNCHANGED otherThanAppReplay

\* stop_monitoring, then start_monitoring on the same, unchanged journal
ReplayAgain ==
    /\ replay.pass = 1
    /\ replay.pos = Len(replay.seq) + 1
    /\ replay' = [replay EXCEPT !.pass = 2, !.pos = 0]
    /\ UNCHANGED otherThanReplay

NextReplay ==
    \/ \E rec \in Deliverable : LiveRecord(rec)
    \/ \E s \in BootstrapSequences : BeginReplay(s)
    \/ ReplayRecord
    \/ ReplaySummary
    \/ ReplayAgain

\* ------------------------------------------------------------------------
\* GameState.current_station next to the docked flag
\* ------------------------------------------------------------------------
\* `current_station: Optional[str] = None`
NoStation == ""

\* StationName of the Docked records
StationNames == {"Jameson Memorial"}

IdleStation == current_station = NoStation

\* the branches of update_from_event that assign current_station: Docked
\* sets it, Undocked clears it, no other branch touches it
CurrentStation(e, name, station) ==
    IF e = "Docked" THEN name
    ELSE IF e = "Undocked" THEN NoStation
    ELSE station

\* the records that bear on docking, live or replayed by a bootstrap
DockingRecords ==
    {[event |-> e, silent |-> s, fields |-> NoFields] :
        e \in {"LoadGame", "FSDJump", "Docked", "Undocked", "SupercruiseEntry"},
        s \in BOOLEAN}

\* _handle_event(rec), with the station the update leaves
HandleDocking(rec, name) ==
    /\ Handling(rec)
    /\ current_station' = CurrentStation(rec.event, name, current_station)
    /\ UNCHANGED otherThanAppStation

\* get_context_description: the summary says 'docked at <station>'
SaysDockedAt == current_station # NoStation

NextStation == \E rec \in DockingRecords, name \in StationNames : HandleDocking(rec, name)

\* ------------------------------------------------------------------------
\* stop_monitoring and start_monitoring while generation requests are queued
\* or in flight.  start_monitoring builds a new LLMEngine and a new TTSEngine;
\* stop_monitoring drops the references, and nothing stops the worker thread
\* of the engine it drops.
\* ------------------------------------------------------------------------
Engines == 1..MaxStarts

NoRequest == [origin |-> 0, some |-> FALSE]

WorkerNotStarted == [pc |-> "none", req |-> NoRequest, response |-> ""]

IdleRestart ==
    /\ app_tts = 0
    /\ app_llm = 0
    /\ monitoring = FALSE
    /\ stop_count = 0
    /\ engine_loaded = [e \in Engines |-> FALSE]
    /\ engine_queue = [e \in Engines |-> <<>>]
    /\ engine_worker = [e \in Engines |-> WorkerNotStarted]
    /\ received = 0
    /\ spoken = <<>>

\* the text of a record or chat message received now
RequestNow == [origin |-> stop_count, some |-> TRUE]

\* start_monitoring: a new LLMEngine, load_model, a new TTSEngine, and the
\* watcher started, whose bootstrap ends with the summary record:
\* _announce_initial_state calls generate() on the new engine, which starts
\* its worker
StartMonitoring ==
    /\ ~monitoring
    /\ stop_count < MaxStarts
    /\ app_llm' = stop_count + 1
    /\ app_tts' = stop_count + 1
    /\ engine_loaded' = [engine_loaded EXCEPT ![stop_count + 1] = TRUE]
    /\ engine_queue' = [engine_queue EXCEPT ![stop_count + 1] = Append(@, RequestNow)]
    /\ engine_worker' = [engine_worker EXCEPT ![stop_count + 1].pc = "loop"]
    /\ monitoring' = TRUE
    /\ UNCHANGED <<stop_count, received, spoken>>
    /\ UNCHANGED otherThanRestart

\* stop_monitoring: watcher.stop(), tts.stop(), self.tts = None,
\* llm.unload_model(), self.llm = None, and it returns
StopMonitoring ==
    /\ monitoring
    /\ app_tts' = 0
    /\ engine_loaded' = [engine_loaded EXCEPT ![app_llm] = FALSE]
    /\ app_llm' = 0
    /\ monitoring' = FALSE
    /\ stop_count' = stop_count + 1
    /\ UNCHANGED <<engine_queue, engine_worker, received, spoken>>
    /\ UNCHANGED otherThanRestart

\* _handle_event or send_message while monitoring: self.llm.generate(text,
\* on_response) puts the text on the engine's queue and starts its worker
Receive ==
    /\ monitoring
    /\ app_llm # 0
    /\ received < MaxReceived
    /\ received' = received + 1
    /\ engine_queue' = [engine_queue EXCEPT ![app_llm] = Append(@, RequestNow)]
    /\ engine_worker' = IF engine_worker[app_llm].pc = "none"
                          THEN [engine_worker EXCEPT ![app_llm].pc = "loop"]
                          ELSE engine_worker
    /\ UNCHANGED <<app_tts, app_llm, monitoring, stop_count, engine_loaded, spoken>>
    /\ UNCHANGED otherThanRestart

\* the worker's get() returns a text and generate_sync is entered: with
\* is_loaded off it returns "Model not loaded.", else it calls the model
EngineGet(e) ==
    /\ engine_worker[e].pc = "loop"
    /\ engine_queue[e] # <<>>
    /\ engine_queue' = [engine_queue EXCEPT ![e] = Tail(@)]
    /\ engine_worker' = [engine_worker EXCEPT ![e] =
           IF engine_loaded[e]
             THEN [pc |-> "model", req |-> Head(engine_queue[e]), response |-> ""]
             ELSE [pc |-> "callback", req |-> Head(engine_queue[e]),
                   response |-> "Model not loaded."]]
    /\ UNCHANGED <<app_tts, app_llm, monitoring, stop_count, engine_loaded,
                   received, spoken>>
    /\ UNCHANGED otherThanRestart

\* the model call, which holds its own reference to the model, returns
EngineModelReturns(e) ==
    /\ engine_worker[e].pc = "model"
    /\ engine_worker' = [engine_worker EXCEPT ![e].pc = "callback",
                                              ![e].response = "generated"]
    /\ UNCHANGED <<app_tts, app_llm, monitoring, stop_count, engine_loaded,
                   engine_queue, received, spoken>>
    /\ UNCHANGED otherThanRestart

\* on_response reads the application's tts field when it runs
TtsAtCall(e) == app_tts

\* on_response(response): `if self.tts: self.tts.speak(response, NORMAL)`
EngineCallback(e) ==
    /\ engine_worker[e].pc = "callback"
    /\ spoken' = IF TtsAtCall(e) # 0
                   THEN Append(spoken, [origin |-> engine_worker[e].req.origin,
                                        at |-> stop_count,
                                        tts |-> TtsAtCall(e),
                                        llm |-> e,
                                        text |-> engine_worker[e].response])
                   ELSE spoken
    /\ engine_worker' = [engine_worker EXCEPT ![e] =
                            [pc |-> "loop", req |-> NoRequest, response |-> ""]]
    /\ UNCHANGED <<app_tts, app_llm, monitoring, stop_count, engine_loaded,
                   engine_queue, received>>
    /\ UNCHANGED otherThanRestart

NextRestart ==
    \/ StartMonitoring
    \/ StopMonitoring
    \/ Receive
    \/ \E e \in Engines : EngineGet(e)
    \/ \E e \in Engines : EngineModelReturns(e)
    \/ \E e \in Engines : EngineCallback(e)

\* ------------------------------------------------------------------------
\* speak() and generate() called from several threads at once: the tail of
\* both is the same three statements (put, then test _worker_thread, then
\* _start_worker), none of them under a lock

Dispatchers == {"audio", "generation"}

\* the threads that submit: the watch thread (gui.py _handle_event), the
\* generation worker (the on_response callback), the control thread
\* (test_audio, ChatWindow.send_message)
SubmitThreads(d) == IF d = "audio" THEN Callers ELSE GenCallers

NotSubmitting == [pc |-> "idle", d |-> "audio", read |-> 0]

IdleSubmit ==
    /\ submit = [t \in Callers |-> NotSubmitting]
    /\ worker_thread = [d \in Dispatchers |-> 0]
    /\ worker_pc = [d \in Dispatchers |-> <<>>]
    /\ pending = [d \in Dispatchers |-> 0]
    /\ next_seq = 0
    /\ enqueued = <<>>
    /\ submitted = [d \in Dispatchers |-> 0]

\* a worker is inside synthesis and playback, or inside the generator call
\* and the callbacks that follow it
Running(d) == {w \in 1..Len(worker_pc[d]) : worker_pc[d][w] = "busy"}

\* the on_response callback runs on a generation worker that is serving an item
MaySubmit(d, t) ==
    /\ t \in SubmitThreads(d)
    /\ submit[t].pc = "idle"
    /\ submitted[d] < MaxSubmits
    /\ (t = "genworker") => (Running("generation") # {})

\* audio_queue.put((-priority.value, self._queue_counter, request)), or
\* generation_queue.put(text): the counter is read when the tuple is built
SubmitPut(d, t) ==
    /\ MaySubmit(d, t)
    /\ pending' = [pending EXCEPT ![d] = @ + 1]
    /\ submitted' = [submitted EXCEPT ![d] = @ + 1]
    /\ enqueued' = IF d = "audio" THEN Append(enqueued, next_seq) ELSE enqueued
    /\ submit' = [submit EXCEPT ![t] = [pc |-> IF d = "audio" THEN "incr" ELSE "test",
                                        d |-> d, read |-> 0]]
    /\ UNCHANGED <<worker_thread, worker_pc, next_seq>>
    /\ UNCHANGED otherThanSubmit

\* self._queue_counter += 1 loads the attribute ...
CounterLoad(t) ==
    /\ submit[t].pc = "incr"
    /\ submit' = [submit EXCEPT ![t].pc = "store", ![t].read = next_seq]
    /\ UNCHANGED <<worker_thread, worker_pc, pending, next_seq, enqueued, submitted>>
    /\ UNCHANGED otherThanSubmit

\* ... and stores the sum
CounterStore(t) ==
    /\ submit[t].pc = "store"
    /\ next_seq' = submit[t].read + 1
    /\ submit' = [submit EXCEPT ![t].pc = "test"]
    /\ UNCHANGED <<worker_thread, worker_pc, pending, enqueued, submitted>>
    /\ UNCHANGED otherThanSubmit

\* if self._worker_thread is None or not self._worker_thread.is_alive():
\* the worker loops while not stop_worker.is_set(), so a started one is alive
WorkerTest(t) ==
    /\ submit[t].pc = "test"
    /\ submit' = [submit EXCEPT ![t].pc = IF worker_thread[submit[t].d] = 0
                                          THEN "start" ELSE "idle"]
    /\ UNCHANGED <<worker_thread, worker_pc, pending, next_seq, enqueued, submitted>>
    /\ UNCHANGED otherThanSubmit

\* _start_worker: a new Thread is assigned to _worker_thread and started
StartWorker(t) ==
    /\ submit[t].pc = "start"
    /\ worker_pc' = [worker_pc EXCEPT ![submit[t].d] = Append(@, "get")]
    /\ worker_thread' = [worker_thread EXCEPT ![submit[t].d] = Len(worker_pc[submit[t].d]) + 1]
    /\ submit' = [submit EXCEPT ![t].pc = "idle"]
    /\ UNCHANGED <<pending, next_seq, enqueued, submitted>>
    /\ UNCHANGED otherThanSubmit

\* _worker_loop: the queue's get returns an item
WorkerTake(d, w) ==
    /\ w \in 1..Len(worker_pc[d])
    /\ worker_pc[d][w] = "get"
    /\ pending[d] > 0
    /\ pending' = [pending EXCEPT ![d] = @ - 1]
    /\ worker_pc' = [worker_pc EXCEPT ![d][w] = "busy"]
    /\ UNCHANGED <<submit, worker_thread, next_seq, enqueued, submitted>>
    /\ UNCHANGED otherThanSubmit

\* _worker_loop: the item is played, or generated and its callbacks have
\* returned, and the loop goes back to get
WorkerDone(d, w) ==
    /\ w \in 1..Len(worker_pc[d])
    /\ worker_pc[d][w] = "busy"
    /\ (d = "generation") => (submit["genworker"].pc = "idle")
    /\ worker_pc' = [worker_pc EXCEPT ![d][w] = "get"]
    /\ UNCHANGED <<submit, worker_thread, pending, next_seq, enqueued, submitted>>
    /\ UNCHANGED otherThanSubmit

NextSubmit ==
    \/ \E d \in Dispatchers, t \in Callers : SubmitPut(d, t)
    \/ \E t \in Callers : CounterLoad(t)
    \/ \E t \in Callers : CounterStore(t)
    \/ \E t \in Callers : WorkerTest(t)
    \/ \E t \in Callers : StartWorker(t)
    \/ \E d \in Dispatchers, w \in 1..MaxSubmits : WorkerTake(d, w)
    \/ \E d \in Dispatchers, w \in 1..MaxSubmits : WorkerDone(d, w)

Init == InitTTS /\ InitLLM /\ InitTailer /\ IdleSelect /\ IdleApp /\ IdleReplay /\ IdleRace /\ IdleLookup /\ IdleClean /\ IdleSubmit /\ IdleStation /\ IdleRestart

SpecTTS == Init /\ [][NextTTS]_vars
SpecLLM == Init /\ [][NextLLM]_vars
SpecTailer == Init /\ [][NextTailer]_vars

\* _find_latest_journal in any directory
AnyDirectory == InitTTS /\ InitLLM /\ InitTailer /\ InitSelect /\ IdleApp /\ IdleReplay /\ IdleRace /\ IdleLookup /\ IdleClean /\ IdleSubmit /\ IdleStation /\ IdleRestart
SpecSelect == AnyDirectory /\ [][NextSelect]_vars

\* _handle_event under any configuration
AnyConfiguration == InitTTS /\ InitLLM /\ InitTailer /\ IdleSelect /\ InitApp /\ IdleReplay /\ IdleRace /\ IdleLookup /\ IdleClean /\ IdleSubmit /\ IdleStation /\ IdleRestart
SpecApp == AnyConfiguration /\ [][NextApp]_vars

\* parse() with any allow-list and urgent set
AnyParser == InitTTS /\ InitLLM /\ InitTailer /\ IdleSelect /\ InitParser /\ IdleReplay /\ IdleRace /\ IdleLookup /\ IdleClean /\ IdleSubmit /\ IdleStation /\ IdleRestart
SpecParser == AnyParser /\ [][NextParser]_vars

\* updates on the watch thread, reads on the control thread
SpecRace == Init /\ [][NextRace]_vars

\* arrival records on the control thread and on the watch thread
SpecLookup == Init /\ [][NextLookup]_vars

\* _handle_event under any allow-list and urgent set
AnyUrgentSet == InitTTS /\ InitLLM /\ InitTailer /\ IdleSelect /\ InitUrgent /\ IdleReplay /\ IdleRace /\ IdleLookup /\ IdleClean /\ IdleSubmit /\ IdleStation /\ IdleRestart
SpecUrgent == AnyUrgentSet /\ [][NextApp]_vars

\* parse() on the types its priority selection names
AnyPriorityParser == InitTTS /\ InitLLM /\ InitTailer /\ IdleSelect /\ AnyPriorities /\ IdleReplay /\ IdleRace /\ IdleLookup /\ IdleClean /\ IdleSubmit /\ IdleStation /\ IdleRestart
SpecPriority == AnyPriorityParser /\ [][NextPriority]_vars

\* the game writes while the tailer attaches
SpecAttach == Init /\ [][NextAttach]_vars

\* the records that bear on docking, in any order
SpecStation == Init /\ [][NextStation]_vars

\* monitoring stopped and started again
SpecRestart == Init /\ [][NextRestart]_vars

\* submit calls that overlap
SpecSubmit == Init /\ [][NextSubmit]_vars

\* _clean_response on any generated text
AnyText == InitTTS /\ InitLLM /\ InitTailer /\ IdleSelect /\ IdleApp /\ IdleReplay /\ IdleRace
           /\ IdleLookup /\ InitClean /\ IdleSubmit /\ IdleStation /\ IdleRestart
SpecClean == AnyText /\ [][NextClean]_vars

\* the bootstrap of one journal replayed twice
SpecReplay == Init /\ [][NextReplay]_vars

\* the worker steps of the Generation Dispatcher, and the specification in
\* which the worker thread, once started, keeps being scheduled and every
\* call into the model comes back
LWorker ==
    \/ LGet
    \/ \E outcome \in LlmOutcomes : LGenerate(outcome)
    \/ \E cbRaises \in BOOLEAN : LCallback(cbRaises)
    \/ LCallbacksEnd
    \/ LClear

SpecLLMFair == Init /\ [][NextLLM]_vars /\ WF_vars(LWorker)

\* a speak() or stop() call that has begun goes on, and the audio worker
\* goes on: its get() returns or times out, synthesis and playback return
CallSteps ==
    \/ \E t \in Callers : ClearCheck(t) \/ ClearGet(t) \/ ClearAssign(t) \/ UrgentFlag(t)
    \/ \E t \in Callers : SpeakPut(t) \/ SpeakIncr(t) \/ SpeakStart(t)
    \/ StopCheck
    \/ StopGet

AudioWorker ==
    \/ WGetBegin
    \/ WTake
    \/ WTimeout
    \/ WSetPlaying
    \/ WSynthesize(TRUE)
    \/ WPlayDone(TRUE)

SpecTTSFair == Init /\ [][NextTTS]_vars /\ WF_vars(CallSteps) /\ WF_vars(AudioWorker)

\* ------------------------------------------------------------------------
\* Both dispatchers with items that fail: a synthesis that raises, a
\* playback the device refuses, a model call that raises, a callback that
\* raises.  speak() is called as gui.py calls it for a generated response
\* (by the callback on the generation worker, NORMAL, no callback of its
\* own), generate() as _handle_event calls it (on the watch thread, with a
\* callback).  The two dispatchers share no state, so the steps of one
\* commute with the steps of the other: the model is loaded, and the
\* generate() calls come, once the audio items have been dealt with.
\* ------------------------------------------------------------------------
SpeakSteps ==
    \/ \E t \in Callers : SpeakPut(t)
    \/ \E t \in Callers : SpeakIncr(t)
    \/ \E t \in Callers : SpeakStart(t)

SpeakCalls ==
    \/ (Quiet /\ Len(calls) < MaxItems /\ SpeakBegin("genworker", NORMAL))
    \/ SpeakSteps

TTSWorker ==
    \/ WGetBegin
    \/ WTake
    \/ WTimeout
    \/ WSetPlaying
    \/ \E ok \in BOOLEAN : WSynthesize(ok)
    \/ \E deviceOk \in BOOLEAN : WPlayDone(deviceOk)

GenerateSteps ==
    \/ \E t \in GenCallers : GeneratePut(t)
    \/ \E t \in GenCallers : GenerateStart(t)

\* the audio items have been dealt with
AudioDone == Len(played) = MaxItems /\ Quiet

GenerateCalls ==
    \/ (AudioDone /\ LoadModel)
    \/ (GenQuiet /\ Len(gcalls) < MaxItems /\ GenerateBegin("watch", TRUE))
    \/ GenerateSteps

NextWorkers == SpeakCalls \/ TTSWorker \/ GenerateCalls \/ LWorker

\* the threads keep being scheduled and every external call comes back
SpecWorkers ==
    /\ Init
    /\ [][NextWorkers]_vars
    /\ WF_vars(SpeakSteps) /\ WF_vars(TTSWorker)
    /\ WF_vars(GenerateSteps) /\ WF_vars(LWorker)


\* ========================================================================
\* Properties
\* ========================================================================

\* ---- C1 ----------------------------------------------------------------
\* The calls speak(LOW), speak(LOW), speak(URGENT), made in that order on an
\* engine with an empty queue and nothing in flight, have all ended, and the
\* worker had dequeued nothing when the third ended.
C1Scenario ==
    /\ Len(calls) = 3
    /\ calls[1].prio = LOW
    /\ calls[2].prio = LOW
    /\ calls[3].prio = URGENT
    /\ stops = <<>>
    /\ \A i \in 1..3 : calls[i].status # "running"
    /\ calls[3].dqend = 0

\* C1 as stated: in that scenario all three calls return normally, the queue
\* holds exactly the URGENT item for as long as the worker has dequeued
\* nothing, and the only item the worker ever dequeues is the URGENT one.
C1Claim ==
    C1Scenario =>
        /\ \A i \in 1..3 : calls[i].status = "returned"
        /\ (Dequeued = <<>> => QueuedReqs = {3})
        /\ \A i \in 1..Len(Dequeued) : Dequeued[i] = 3

\* what the code does instead: the third call raises out of
\* _clear_queue_below after taking the first LOW item off the queue; the
\* URGENT item is never queued and the second LOW item is what is left
C1Diverges ==
    /\ C1Scenario
    /\ calls[3].status = "raised"
    /\ Dequeued = <<>>
    /\ QueuedReqs = {2}

\* ---- C2 ----------------------------------------------------------------
\* C2: whenever the audio worker's get() returns an item, every item that is
\* queued at that moment has a lower priority class than the item taken, or
\* the same class and a later submission.
C2Theorem ==
    [][(wpc = "get" /\ wpc' = "set_prio") =>
          \A e \in AllQueued :
              e.req # wreq' =>
                  \/ ReqPriority(e.req) < ReqPriority(wreq')
                  \/ (ReqPriority(e.req) = ReqPriority(wreq') /\ e.req > wreq')]_vars

\* the worker has just taken an item past an item of a lower class that was
\* submitted before it and is still queued
C2Witness ==
    /\ wpc = "set_prio"
    /\ \E e \in AllQueued :
          e.req < wreq /\ ReqPriority(e.req) < ReqPriority(wreq)

\* ---- C3 ----------------------------------------------------------------
\* the URGENT calls that began while the worker held a dequeued item of a
\* lower class
UrgentOverInFlight ==
    {u \in 1..Len(calls) :
        /\ calls[u].prio = URGENT
        /\ calls[u].inflight # NoReq
        /\ ReqPriority(calls[u].inflight) < URGENT}

PlayedAt(r) == {i \in 1..Len(played) : played[i].req = r}

Synthesized ==
    {played[i].req : i \in 1..Len(played)} \cup
        (IF wpc = "play" THEN {wreq} ELSE {})

\* C4 as stated: once stop() has returned, the audio queue is empty as long
\* as no speak call has begun since, and no item that sat in the queue when
\* stop() was called is synthesized or played.
C4Claim ==
    \A k \in 1..Len(stops) :
        stops[k].status = "returned" =>
            /\ (Len(calls) = stops[k].ncalls => queues[audio_queue] = {})
            /\ stops[k].queued \cap Synthesized = {}

\* what the code does instead: the worker's get() takes an item between
\* stop()'s sd.stop() and its drain loop; stop() returns, and the item is
\* synthesized and played to its end
C4Diverges ==
    \E k \in 1..Len(stops) :
        /\ stops[k].status = "returned"
        /\ \E i \in 1..Len(played) :
              /\ played[i].req \in stops[k].queued
              /\ played[i].outcome = "complete"

\* ---- C5 ----------------------------------------------------------------
\* the texts that generate() has put on the queue so far: the n-th call
\* puts text n
Enqueued ==
    LET nput == Len(gcalls) - Cardinality({t \in GenCallers : gpc[t] = "put"})
    IN  [i \in 1..nput |-> i]

InvokedAt(c) == {j \in 1..Len(invoked) : invoked[j].cb = c}
Registered(c) == \E i \in 1..Len(response_callbacks) : response_callbacks[i] = c

\* C6 as stated: a callback passed to generate() is called at most once,
\* with the result of the item the worker served then; and once it is off the
\* callback list it has been called.
C6Claim ==
    \A c \in 1..Len(gcalls) :
        gcalls[c].cb =>
            /\ Cardinality(InvokedAt(c)) <= 1
            /\ \A j \in InvokedAt(c) :
                  invoked[j].result = genlog[invoked[j].item].result
            /\ (~Registered(c) => Cardinality(InvokedAt(c)) = 1)

\* what the code does instead: a callback appended after the worker's `for`
\* loop has ended and before response_callbacks.clear() is cleared without
\* having been called
C6Diverges ==
    \E c \in 1..Len(gcalls) :
        /\ gcalls[c].cb
        /\ \A t \in GenCallers : gid[t] # c
        /\ ~Registered(c)
        /\ InvokedAt(c) = {}

\* ---- C7 ----------------------------------------------------------------
\* the items whose model call raised
RaisedItems == {i \in 1..Len(genlog) : genlog[i].outcome = "raises"}

\* C7: for an item whose model call raised, generate_sync yields the fallback
\* utterance and every callback called for the item receives it; the
\* exception does not leave generate_sync, and whenever the worker has
\* served such an item as its latest while a further text is queued, it goes
\* on to serve a further item.
C7Theorem ==
    /\ [](\A i \in RaisedItems :
             /\ genlog[i].result = FallbackUtterance
             /\ \A j \in 1..Len(invoked) :
                   invoked[j].item = i => invoked[j].result = FallbackUtterance)
    /\ \A n \in 1..MaxGen :
          (Len(genlog) = n /\ n \in RaisedItems /\ generation_queue # <<>>)
              ~> (Len(genlog) > n)

\* a model call raised, a callback received the fallback utterance for that
\* item, and the worker served the next item with an answer of the model
C7Witness ==
    \E i \in RaisedItems :
        /\ \E j \in 1..Len(invoked) :
              invoked[j].item = i /\ invoked[j].result = FallbackUtterance
        /\ Len(genlog) > i
        /\ genlog[i + 1].outcome = "answers"

\* ---- C8 ----------------------------------------------------------------
\* C8 as stated: a call of the change handler does not move the cursor
\* backwards; and a call that follows an earlier call on the same attached
\* file, with nothing appended in between, hands no record to the callback
\* and leaves the cursor where it was.
C8Claim ==
    lastcall.op = "changed" =>
        /\ lastcall.to >= lastcall.from
        /\ (lastcall.follows /\ ~lastcall.dirty) =>
              (lastcall.recs = <<>> /\ lastcall.to = lastcall.from)

\* what the code does instead: the callback raised during the earlier call,
\* the cursor stayed where it was, and the next call, with nothing appended,
\* hands the same records to the callback again
C8Diverges ==
    /\ lastcall.op = "changed"
    /\ lastcall.follows
    /\ ~lastcall.dirty
    /\ lastcall.recs # <<>>

\* ---- C9 ----------------------------------------------------------------
\* the call read a batch of complete lines
CompleteBatch ==
    /\ lastcall.op = "changed"
    /\ lastcall.lines # <<>>
    /\ \A i \in 1..Len(lastcall.lines) : lastcall.lines[i].complete

\* C9 as stated: a call of the change handler that reads a batch of complete
\* lines hands each line that parses to the callback once, in file order,
\* hands over nothing else, and ends with the cursor at the end of the lines
\* read.
C9Claim ==
    CompleteBatch =>
        /\ lastcall.recs = Records(SelectSeq(lastcall.lines, Parses), FALSE)
        /\ lastcall.to = lastcall.size

\* what the code does instead: the callback raises for a record, the lines
\* after it are not handed over and the cursor is not moved
C9Diverges ==
    /\ CompleteBatch
    /\ lastcall.raised
    /\ Len(lastcall.recs) < Len(SelectSeq(lastcall.lines, Parses))
    /\ lastcall.to = lastcall.from
    /\ lastcall.to < lastcall.size

\* ---- C10 ---------------------------------------------------------------
\* C10, amended: when check_for_new_journal attaches the handler to a newer
\* file, the cursor is set to that file's size at that moment (its end), which
\* is 0 only for an empty file.
C10Theorem ==
    lastcall.op = "poll" => lastcall.to = lastcall.size

\* the handler was re-attached to a newer file that already had content
C10Witness ==
    /\ lastcall.op = "poll"
    /\ lastcall.from > 0
    /\ lastcall.size > 0
    /\ last_position = lastcall.size

\* C10 as stated: after the re-attach the cursor is 0
C10Claim ==
    lastcall.op = "poll" => lastcall.to = 0

\* ---- C11 ---------------------------------------------------------------
\* C11: an attach without bootstrap (by start or by check_for_new_journal)
\* leaves the cursor at the file's size and calls the callback with nothing;
\* every record a later change call hands over lies behind the size the file
\* had at the attach, and is neither tagged silent nor the state-loaded
\* record.
C11Theorem ==
    /\ (lastcall.op \in {"start", "poll"} /\ ~attach.bootstrap) =>
          (lastcall.to = lastcall.size /\ lastcall.recs = <<>>)
    /\ (lastcall.op = "changed" /\ ~attach.bootstrap) =>
          /\ lastcall.file = attach.file
          /\ lastcall.from >= attach.size
          /\ \A i \in 1..Len(lastcall.recs) :
                /\ lastcall.recs[i].at > attach.size
                /\ ~lastcall.recs[i].silent
                /\ lastcall.recs[i].kind # "InitialStateLoaded"

\* the handler was attached without bootstrap to a file that had content,
\* and a later change call handed over a record
C11Witness ==
    /\ lastcall.op = "changed"
    /\ ~attach.bootstrap
    /\ attach.size > 0
    /\ lastcall.recs # <<>>

\* ---- C12 ---------------------------------------------------------------
\* C12: _find_latest_journal returns one of the entries matching the pattern,
\* and none of the matching entries has a later modification time; it returns
\* None when the directory does not exist or no entry matches.
C12Theorem ==
    latest_journal.done =>
        IF ~journal_dir.exists \/ Glob(journal_dir) = {}
        THEN latest_journal.path = NoFile
        ELSE /\ latest_journal.path \in Glob(journal_dir)
             /\ \A n \in Glob(journal_dir) :
                    journal_dir.entries[n].mtime
                        <= journal_dir.entries[latest_journal.path].mtime

C12Witness ==
    /\ latest_journal.done
    /\ latest_journal.path # NoFile
    /\ \E n \in Glob(journal_dir) :
            journal_dir.entries[n].mtime < journal_dir.entries[latest_journal.path].mtime
    /\ \E n \in Names :
            /\ journal_dir.entries[n].present
            /\ ~journal_dir.entries[n].matches
            /\ journal_dir.entries[n].mtime > journal_dir.entries[latest_journal.path].mtime

\* ---- C13 ---------------------------------------------------------------
\* the lines of the file the last call attached to, as the file was then
BootstrapLines == LinesFrom(SubSeq(content[lastcall.file], 1, lastcall.size), 0)

StateRelevant(l) == Parses(l) /\ l.kind \in StateEvents

\* the index of the last LoadGame line, 0 if there is none
LastSessionStart(lines) ==
    LET starts == {i \in 1..Len(lines) : lines[i].kind = "LoadGame"}
    IN  IF starts = {} THEN 0 ELSE CHOOSE i \in starts : \A j \in starts : j <= i

\* what the replay owes the callback: the state events from the last LoadGame
\* on (from the first line, if there is none), tagged, and the summary record
ReplayOwed(lines) ==
    LET s == LastSessionStart(lines)
    IN  Records(SelectSeq(SubSeq(lines, IF s = 0 THEN 1 ELSE s, Len(lines)),
                          StateRelevant), TRUE) \o <<SummaryRecord>>

\* C13 as stated: a start with bootstrap whose callback returns from every
\* call hands over exactly the state events between the last LoadGame
\* (inclusive) and the end of the file, in file order and tagged silent, and
\* then the one untagged InitialStateLoaded record.
C13Claim ==
    (lastcall.op = "start" /\ attach.bootstrap /\ attach.outcome # "callback raised") =>
        lastcall.recs = ReplayOwed(BootstrapLines)

\* the bootstrap of a file with state events handed over nothing, because the
\* scan raised at a line that is no JSON object
C13Diverges ==
    /\ lastcall.op = "start"
    /\ attach.bootstrap
    /\ attach.outcome = "scan raised"
    /\ Len(ReplayOwed(BootstrapLines)) > 1
    /\ lastcall.recs = <<>>

\* ---- C14 ---------------------------------------------------------------
\* C14 as stated: whatever the file holds, a start with bootstrap (whose
\* callback returns from every call) does not raise, leaves
\* loading_initial_state False and the cursor at the end of the file.
C14Claim ==
    (lastcall.op = "start" /\ attach.bootstrap /\ attach.outcome # "callback raised") =>
        /\ ~lastcall.raised
        /\ ~loading_initial_state
        /\ lastcall.to = lastcall.size

\* the scan raised: start() did not return, loading_initial_state is still
\* True, the cursor is 0 in a file that has content, nothing is watched
C14Diverges ==
    /\ lastcall.op = "start"
    /\ attach.bootstrap
    /\ attach.outcome = "scan raised"
    /\ loading_initial_state
    /\ lastcall.to = 0
    /\ lastcall.size > 0
    /\ ~is_running

\* ---- C15 ---------------------------------------------------------------
\* C15: a record the bootstrap tagged silent is applied to the game state (it
\* is the newest entry of recent_events, and a Docked or SupercruiseEntry
\* record sets its flag), and _handle_event submits nothing for it, neither
\* to LLMEngine.generate nor to TTSEngine.speak, also when its type is in
\* the allow-list and in the urgent set.
C15Theorem ==
    handled.rec.silent =>
        /\ ~handled.generate
        /\ handled.speak = NoSpeak
        /\ recent_events # <<>>
        /\ recent_events[Len(recent_events)] = updates
        /\ handled.rec.event = "Docked" => docked
        /\ handled.rec.event = "SupercruiseEntry" => in_supercruise

\* a tagged record of an urgent, allowed type with a canned response
C15Witness ==
    /\ handled.rec.silent
    /\ handled.rec.event \in whitelist \cap urgent_events
    /\ HasCannedResponse(handled.rec.event)
    /\ handled.speak = NoSpeak
    /\ ~handled.generate

\* ---- C16 ---------------------------------------------------------------
\* C16: whatever the allow-list is, parse() returns a ParsedEvent exactly for
\* the records whose type is in it, and None for the others.
C16Theorem ==
    parsed.rec.event # "" =>
        (parsed.result.some <=> parsed.rec.event \in whitelist)

\* a record outside a non-empty allow-list, in the urgent set, got None
C16Witness ==
    /\ parsed.rec.event # ""
    /\ whitelist # {}
    /\ parsed.rec.event \notin whitelist
    /\ parsed.rec.event \in urgent_events
    /\ ~parsed.result.some

\* ---- C17 ---------------------------------------------------------------
\* C17, amended: a record whose type is in the urgent set and in the
\* allow-list yields a ParsedEvent with priority URGENT and is_urgent set,
\* whatever its other fields; a record whose type is in the urgent set but
\* not in the allow-list yields None.
C17Theorem ==
    parsed.rec.event \in urgent_events =>
        IF parsed.rec.event \in whitelist
        THEN /\ parsed.result.some
             /\ parsed.result.priority = URGENT
             /\ parsed.result.is_urgent
        ELSE ~parsed.result.some

\* an arrival record, HIGH by its type, is URGENT by the urgent set
C17Witness ==
    /\ parsed.rec.event = "FSDJump"
    /\ parsed.rec.event \in urgent_events
    /\ parsed.result.some
    /\ parsed.result.priority = URGENT

\* C17 as stated: every record whose type is in the urgent set yields a
\* ParsedEvent with priority URGENT
C17Claim ==
    parsed.rec.event \in urgent_events =>
        (parsed.result.some /\ parsed.result.priority = URGENT)

\* ---- C18 ---------------------------------------------------------------
\* C18: after n update calls recent_events holds the last min(n, 10) records
\* in the order they came; after 11 calls it holds the 2nd to the 11th.
C18Theorem ==
    recent_events = [i \in 1..Min(updates, RecentKept) |->
                        updates - Min(updates, RecentKept) + i]

C18Witness ==
    /\ updates = 11
    /\ recent_events = [i \in 1..10 |-> i + 1]

\* ---- C19 ---------------------------------------------------------------
\* C19: in_supercruise and in_normal_space are never both True.
C19Theorem == ~(in_supercruise /\ in_normal_space)

\* the ship dropped out of supercruise
C19Witness ==
    /\ updates >= 2
    /\ handled.rec.event = "SupercruiseExit"
    /\ in_normal_space
    /\ ~in_supercruise

\* ---- C20 ---------------------------------------------------------------
\* C20 as stated: in every state, the initial one included,
\* 0 <= fuel_level <= fuel_capacity.
C20Claim == 0 <= fuel_level /\ fuel_level <= fuel_capacity

\* the summary of a bootstrap that met no LoadGame and no ShipRefuelled is
\* announced with more fuel than the tank holds
C20Diverges ==
    /\ handled.rec.event = "InitialStateLoaded"
    /\ fuel_level = DefaultFuelLevel
    /\ fuel_capacity = DefaultFuelCapacity
    /\ fuel_level > fuel_capacity

\* ---- C21 ---------------------------------------------------------------
\* the types update_from_event has a branch for
Recognised == {"LoadGame", "FSDJump", "SupercruiseEntry", "SupercruiseExit",
               "Docked", "Undocked", "ShipRefuelled", "ShieldState",
               "ShipLowFuel", "Bounty", "MaterialCollected", "Cargo"}

\* C21: an update with a record of a type update_from_event has no branch for
\* leaves the movement flags, the docked flag and the fuel as they were; the
\* record becomes the newest entry of recent_events, the entries before it
\* stay in order, and the oldest one is dropped once there would be 11.
C21Theorem ==
    [][(updates' = updates + 1 /\ handled'.rec.event \notin Recognised) =>
          /\ UNCHANGED <<in_supercruise, in_normal_space, docked, fuel_level,
                         fuel_capacity>>
          /\ Len(recent_events') = Min(Len(recent_events) + 1, RecentKept)
          /\ recent_events'[Len(recent_events')] = updates'
          /\ \A i \in 1..(Len(recent_events') - 1) :
                recent_events'[i] = recent_events[i + Len(recent_events) + 1
                                                    - Len(recent_events')]]_vars

\* an unknown record arrived as the 11th, with the ship in supercruise and
\* the fuel read from a LoadGame
C21Witness ==
    /\ updates = 11
    /\ handled.rec.event = "Music"
    /\ Len(recent_events) = RecentKept
    /\ recent_events[1] = 2
    /\ in_supercruise
    /\ fuel_level # DefaultFuelLevel

\* ---- C22 ----
\* C22: replaying the identical bootstrap sequence a second time into the
\* same SessionState leaves the movement flags, the docked flag, the fuel
\* level and the fuel capacity as they were after the first replay.
C22Claim ==
    (replay.pass = 2 /\ replay.pos = Len(replay.seq) + 1) =>
        /\ in_supercruise = replay.first.sc
        /\ in_normal_space = replay.first.ns
        /\ docked = replay.first.docked
        /\ fuel_level = replay.first.level
        /\ fuel_capacity = replay.first.capacity

\* the second replay of a lone ShipRefuelled has added its amount once more
C22Diverges ==
    /\ replay.pass = 2 /\ replay.pos = Len(replay.seq) + 1
    /\ Len(replay.seq) = 1 /\ replay.seq[1].event = "ShipRefuelled"
    /\ replay.first.level = 16 /\ fuel_level = 32
    /\ fuel_capacity = replay.first.capacity

\* ---- C23 ----
\* an item of the audio worker failed: its synthesis raised or the device
\* refused its playback
AudioItemFailed ==
    \E i \in 1..Len(played) : played[i].outcome \in {"synth_error", "play_error"}

\* an item of the generation worker failed: the model call or a callback raised
GenerationItemFailed ==
    \/ \E i \in 1..Len(genlog) : genlog[i].outcome = "raises"
    \/ \E j \in 1..Len(invoked) : invoked[j].raised

\* C23: in both worker loops an exception raised while an item is processed
\* (model call, synthesis, playback, callback) is caught inside the loop: no
\* worker thread ends, and whatever is queued once an item has failed is
\* dequeued and processed to its end.
C23Theorem ==
    /\ [](wpc # "dead" /\ lpc # "dead")
    /\ (AudioItemFailed /\ QueuedReqs # {}) ~> (QueuedReqs = {} /\ ~InFlight)
    /\ (GenerationItemFailed /\ generation_queue # <<>>)
          ~> (generation_queue = <<>> /\ ~Serving)

\* the first item of each worker failed (synthesis raised; the model call
\* and then the callback raised) and each worker went on to process the
\* second item to its end
C23Witness ==
    /\ Len(played) = 2
    /\ played[1].outcome = "synth_error" /\ played[2].outcome = "complete"
    /\ Len(genlog) = 2
    /\ genlog[1].outcome = "raises" /\ genlog[2].outcome = "answers"
    /\ \E j \in 1..Len(invoked) : invoked[j].item = 1 /\ invoked[j].raised
    /\ \E j \in 1..Len(invoked) : invoked[j].item = 2 /\ ~invoked[j].raised
    /\ wpc = "loop" /\ lpc = "loop"

\* ---- C24 ----
\* C24: a read on the control thread never observes a partially applied
\* update: neither a recent-record sequence of 11 entries nor a record that
\* is in the sequence while its branch of the update has not run.
C24Claim == seen.len <= RecentKept /\ ~seen.partial

\* the read came between the append of the 11th record and the trim
C24Diverges == seen.read /\ seen.len = RecentKept + 1 /\ seen.partial

\* ---- C25 ----
\* C25: no network lookup is ever made on the control thread; start() with
\* the bootstrap only updates the state and enqueues work.
C25Claim == \A r \in requested : r.thread # "control"

\* the bootstrap handled a tagged arrival record on the control thread: it
\* submitted nothing, and made the network lookup for the system
C25Diverges ==
    /\ \E r \in requested : r.thread = "control" /\ r.system = "Sol"
    /\ formatted.done /\ formatted.thread = "control" /\ formatted.outcome = "timeout"
    /\ handled.rec.event = "FSDJump" /\ handled.rec.silent
    /\ ~handled.generate /\ handled.speak = NoSpeak

\* ---- C26 ----
\* C26: the cache lock is never held by a thread while its network lookup is
\* in progress: it was free of that thread when the request went out and
\* stays so until the request ends, so that the other thread can take the
\* lock and read the cache meanwhile.
C26Theorem ==
    /\ \A r \in requested : r.lock # r.thread
    /\ \A t \in LookupThreads :
          kpc[t] \in {"fetch", "waiting"} =>
              /\ cache_lock # t
              /\ cache_lock # "free" => kpc[cache_lock] \in {"check", "store"}

\* while the request of one thread for one system is outstanding, the other
\* thread holds the lock and finds another system in the cache
C26Witness ==
    \E t, u \in LookupThreads :
        /\ kpc[t] = "waiting" /\ kpc[u] = "check" /\ cache_lock = u
        /\ KeyOf(t) # KeyOf(u)
        /\ system_cache[KeyOf(u)] # "missing"

\* ---- C27 ----
\* C27: formatting an arrival record returns, without raising, a sentence
\* that contains the system name, whether the lookup yields a description,
\* finds nothing, times out or fails (or is answered from the cache).
C27Theorem ==
    formatted.done =>
        /\ ~formatted.raised
        /\ \E i \in 1..Len(formatted.text) : formatted.text[i] = formatted.system
        /\ formatted.text[1] = "Arrived in"

\* the sentence for an arrival whose lookup timed out
C27Witness ==
    /\ formatted.done /\ formatted.outcome = "timeout" /\ formatted.system = "Sol"
    /\ formatted.text = <<"Arrived in", "Sol", "Near", "Earth">>

\* ---- C28 ----
\* the cleanup in the words of the claim: the text between the first and the
\* last token that is no space
Trimmed(s) ==
    LET solid == {i \in 1..Len(s) : s[i] # Space}
    IN  IF solid = {} THEN <<>>
        ELSE SubSeq(s, CHOOSE i \in solid : \A j \in solid : i <= j,
                       CHOOSE i \in solid : \A j \in solid : i >= j)

\* a single pair of surrounding quotes removed when first and last token are
\* the same quote
Unwrapped(s) ==
    IF Len(s) >= 2 /\ s[1] = s[Len(s)] /\ s[1] \in {DoubleQuote, SingleQuote}
    THEN [i \in 1..(Len(s) - 2) |-> s[i + 1]] ELSE s

\* the listed prefix p removed, with the space after it, if s starts with it
Without(p, s) ==
    IF Len(s) >= 1 /\ s[1] = p THEN Trimmed([i \in 1..(Len(s) - 1) |-> s[i + 1]]) ELSE s

\* one listed prefix removed, if s starts with one
WithoutOnePrefix(s) ==
    IF Len(s) >= 1 /\ \E k \in 1..Len(Prefixes) : s[1] = Prefixes[k]
    THEN Without(s[1], s) ELSE s

\* C28 as stated: the cleanup trims, unwraps one pair of matching quotes,
\* and removes one listed prefix.
C28Claim ==
    clean_out.done => clean_out.text = WithoutOnePrefix(Unwrapped(Trimmed(clean_in)))

\* C28: the cleanup trims, unwraps one pair of matching quotes, and then goes
\* through the listed prefixes in the order of the list, removing each one
\* the text starts with at that point (so "Response:" and then "AI:" are both
\* removed); a text in one pair of double quotes yields the inner text, and
\* 'AI: Standing by.' yields 'Standing by.'.
C28Theorem ==
    clean_out.done =>
        /\ clean_out.text =
               Without(Prefixes[2], Without(Prefixes[1], Unwrapped(Trimmed(clean_in))))
        /\ clean_in = <<DoubleQuote, "x", DoubleQuote>> => clean_out.text = <<"x">>
        /\ clean_in = <<"AI:", Space, "x">> => clean_out.text = <<"x">>

\* "Response: AI: x" cleaned to "x": two listed prefixes removed
C28Witness ==
    /\ clean_out.done
    /\ clean_in = <<"Response:", Space, "AI:", "x">>
    /\ clean_out.text = <<"x">>

\* ---- C29 ----
\* the units of the attached file that were written after the attach
SinceAttach(f) == {i \in 1..Len(content[f]) : i > attach.size}

\* C29: a well-formed line that reaches the file in two writes with an
\* onFileChanged call between them is delivered exactly once, by the call
\* that finds it complete, and a call that finds an incomplete trailing line
\* leaves the cursor before it.
C29Claim ==
    (lastcall.op = "changed" /\ ~lastcall.raised) =>
        LET f == lastcall.file
        IN  /\ \A i \in SinceAttach(f) :
                  (/\ lastcall.from < i /\ i <= lastcall.size
                   /\ content[f][i].part = "tail"
                   /\ content[f][i].kind \notin {"bad", "notdict"}
                   /\ i - 1 \in SinceAttach(f))
                  => Cardinality({j \in 1..Len(lastcall.recs) :
                                     lastcall.recs[j].at = i}) = 1
            /\ (/\ lastcall.from < lastcall.size
                 /\ content[f][lastcall.size].part = "head")
                  => lastcall.to < lastcall.size

\* the head of a well-formed line was written after the attach and consumed
\* by an onFileChanged call; the call after the tail was written starts
\* behind the head and delivers nothing
C29Diverges ==
    /\ lastcall.op = "changed" /\ ~lastcall.raised
    /\ lastcall.size >= 2 /\ lastcall.size - 1 > attach.size
    /\ content[lastcall.file][lastcall.size - 1].part = "head"
    /\ content[lastcall.file][lastcall.size] = [kind |-> "Music", part |-> "tail"]
    /\ lastcall.from = lastcall.size - 1
    /\ lastcall.recs = <<>>
    /\ last_position = lastcall.size

\* ---- C30 ----
\* every text has been served and no call and no item is under way
GenerationSettled ==
    /\ GenQuiet
    /\ generation_queue = <<>>
    /\ lpc = "loop"
    /\ Len(genlog) = Len(gcalls)

\* C30: every callback passed to generate() is invoked exactly once: at no
\* moment has it been invoked twice, and once every text has been served it
\* has been invoked, however the calls interleave with the worker.
C30Claim ==
    \A c \in 1..Len(gcalls) :
        gcalls[c].cb =>
            /\ Cardinality(InvokedAt(c)) <= 1
            /\ GenerationSettled => Cardinality(InvokedAt(c)) = 1

\* every text has been served, the callback list is empty, and a callback
\* that was passed while the worker stood between its `for` loop and
\* clear() has never been invoked
C30Diverges ==
    /\ GenerationSettled
    /\ response_callbacks = <<>>
    /\ \E c \in 1..Len(gcalls) :
          /\ gcalls[c].cb
          /\ InvokedAt(c) = {}
          /\ gcalls[c].serving # 0
          /\ \A d \in 1..Len(gcalls) : d # c /\ gcalls[d].cb => Cardinality(InvokedAt(d)) = 1

\* ---- C31 ----
\* C31: under any interleaving of submit calls from the watch thread, the
\* generation worker and the control thread, each dispatcher has at most one
\* worker thread, so at most one audio item is in synthesis or playback and
\* at most one generator call is in progress.
C31Claim ==
    \A d \in Dispatchers :
        /\ Len(worker_pc[d]) <= 1
        /\ Cardinality(Running(d)) <= 1

\* two callers passed the test of _worker_thread before either started a
\* worker: two audio workers play at once, two generation workers generate
C31Diverges ==
    /\ Cardinality(Running("audio")) = 2
    /\ Cardinality(Running("generation")) = 2

\* ---- C32 ----
\* C32: every item put on the audio queue carries a sequence number that is
\* distinct from every other item's and strictly greater than those of all
\* items put before it, also when speak is called from several threads.
C32Claim ==
    \A i, j \in 1..Len(enqueued) : i < j => enqueued[i] < enqueued[j]

\* two overlapping speak calls both built their tuple from the same counter
C32Diverges ==
    /\ Len(enqueued) = 2
    /\ enqueued[1] = enqueued[2]
    /\ \A t \in Callers : submit[t].pc = "idle"

\* ---- C33 ----
\* the class the claim gives a type under an urgent set
ClassOf(e, urgent) ==
    CASE e \in urgent -> URGENT
      [] e \notin urgent /\ e \in {"FSDJump", "DockingGranted", "Scan"} -> HIGH
      [] e \notin urgent /\ e \in {"MaterialCollected", "Bounty", "MissionCompleted"} -> NORMAL
      [] OTHER -> LOW

\* C33: the priority of a ParsedEvent is Urgent when the type is in the
\* urgent set, else High for arrival, docking granted and scan, else Normal
\* for material pickup, bounty and mission complete, else Low; and is_urgent
\* is set exactly when the priority is Urgent.
C33Theorem ==
    parsed.result.some =>
        /\ parsed.result.priority = ClassOf(parsed.rec.event, urgent_events)
        /\ parsed.result.is_urgent <=> (parsed.result.priority = URGENT)

\* a scan that is in the urgent set came out Urgent, not High
C33Witness ==
    /\ parsed.result.some
    /\ parsed.rec.event = "Scan"
    /\ urgent_events = {"Scan", "Bounty"}
    /\ parsed.result.priority = URGENT
    /\ parsed.result.is_urgent

\* ---- C34 ----
\* the record _handle_event got last is live (not tagged by the bootstrap),
\* accepted by the allow-list, in the urgent set, and of a type that the
\* table of canned responses names
UrgentCanned ==
    /\ ~handled.rec.silent
    /\ handled.rec.event \in whitelist \cap urgent_events
    /\ handled.rec.event \in {"ShipLowFuel", "Died", "ShieldState"}

\* C34: for a live accepted record that is urgent and has a canned response
\* the handler makes one submission to the audio dispatcher, at Urgent, and
\* none to the generation dispatcher; for every other record it makes no
\* audio submission at Urgent.
C34Theorem ==
    handled.rec.event # "" =>
        IF UrgentCanned
        THEN handled.speak = URGENT /\ ~handled.generate
        ELSE handled.speak # URGENT

\* a live, accepted, urgent record without a canned response went to the
\* generation dispatcher
C34Witness ==
    /\ ~handled.rec.silent
    /\ handled.rec.event = "Music"
    /\ "Music" \in whitelist \cap urgent_events
    /\ ~raw_data_mode
    /\ handled.generate
    /\ handled.speak = NoSpeak

\* ---- C35 ----
\* C35: each callback passed to generate(text, callback) receives the result
\* generated from its own text, also when several requests are submitted
\* before the worker has finished the first.
C35Claim ==
    \A j \in 1..Len(invoked) : genlog[invoked[j].item].text = invoked[j].cb

\* two requests were queued before the worker took the first: the second
\* callback got the first text's result, and the second text was generated
\* with no callback left
C35Diverges ==
    /\ Len(gcalls) >= 2 /\ gcalls[1].cb /\ gcalls[2].cb
    /\ Len(genlog) >= 2 /\ genlog[1].text = 1 /\ genlog[2].text = 2
    /\ lpc = "loop"
    /\ \E j \in InvokedAt(2) : invoked[j].item = 1 /\ invoked[j].result = genlog[1].result
    /\ \A j \in InvokedAt(2) : invoked[j].item = 1

\* ---- C36 ----
\* the whole, well-formed lines the game appended after the bootstrap had
\* read the file and before the first change notification was handled
AppendedSinceBootstrap ==
    {i \in (attach.size + 1)..lastcall.size :
        /\ content[attach.file][i].part = "whole"
        /\ content[attach.file][i].kind \notin {"bad", "notdict"}}

\* C36: a well-formed record appended to the attached file while the attach
\* with bootstrap is in progress (after the bootstrap read the file, before
\* the cursor is set) is not lost: the next change notification reads it.
C36Claim ==
    (/\ attach.bootstrap /\ attach.outcome = "attached"
     /\ lastcall.op = "changed" /\ ~lastcall.follows) =>
        \A i \in AppendedSinceBootstrap : i > lastcall.from

\* the cursor was set past a record the bootstrap had not read; the game
\* wrote a further record, and the change notification delivered that one
\* only
C36Diverges ==
    /\ attach.bootstrap /\ attach.outcome = "attached"
    /\ lastcall.op = "changed" /\ ~lastcall.follows /\ ~lastcall.raised
    /\ Len(lastcall.recs) = 1
    /\ lastcall.from = attach.size + 1
    /\ attach.size + 1 \in AppendedSinceBootstrap

\* ---- C37 ----
\* C37: when the record callback raises while the change handler processes
\* a batch, the remaining lines are still delivered and the cursor still
\* advances past the batch.
C37Claim ==
    (lastcall.op = "changed" /\ lastcall.raised) =>
        /\ Len(lastcall.recs) = Len(SelectSeq(lastcall.lines, Parses))
        /\ lastcall.to > lastcall.from

\* the callback raised at the first of two records: the second was not
\* delivered and the cursor stayed before both, so the next call reads the
\* first again
C37Diverges ==
    /\ lastcall.op = "changed" /\ lastcall.raised
    /\ Len(SelectSeq(lastcall.lines, Parses)) = 2
    /\ Len(lastcall.recs) = 1
    /\ last_position = lastcall.from
    /\ last_position < Size(current_journal)

\* ---- C38 ----
\* speak() returned for call c, so its item was put on the queue
Accepted(c) == c <= Len(calls) /\ calls[c].status = "returned"

\* the worker synthesized and played the item of call c
Played(c) == \E i \in 1..Len(played) : played[i].req = c

\* a stop() was called, or the item is below URGENT and an URGENT call came
\* after it: the item may have been removed
MayBeRemoved(c) ==
    \/ stops # <<>>
    \/ /\ c <= Len(calls)
       /\ calls[c].prio # URGENT
       /\ \E u \in (c + 1)..Len(calls) : calls[u].prio = URGENT

\* C38: every item speak() accepted that no urgent purge and no stop()
\* removed is eventually synthesized and played, when synthesis and playback
\* return, however the speak calls (the URGENT ones rebuild the queue)
\* interleave with the worker's blocking dequeue.
C38Claim ==
    \A c \in 1..MaxSpeak : Accepted(c) ~> (Played(c) \/ MayBeRemoved(c))

\* an URGENT item that speak() accepted sits in no queue, is not with the
\* worker and was not played; nobody called stop(), and no call is under way
C38Diverges ==
    \E c \in 1..Len(calls) :
        /\ Accepted(c) /\ calls[c].prio = URGENT
        /\ stops = <<>> /\ Quiet
        /\ c \notin QueuedReqs
        /\ ~(InFlight /\ wreq = c)
        /\ ~Played(c)

\* ---- C39 ----
\* C39: in every reachable state the docked flag is set exactly when a
\* current station is recorded, so the summary says 'docked at <station>'
\* only while docked.
C39Claim == docked <=> SaysDockedAt

\* after a Docked record and a later FSDJump with no Undocked between them
\* (the jump replayed by the bootstrap of a later start) the flag is off and
\* the summary still says 'docked at'
C39Diverges ==
    /\ handled.rec.event = "FSDJump"
    /\ handled.rec.silent
    /\ ~docked
    /\ SaysDockedAt

====
